---- MODULE Spec2Model ----
(***************************************************************************)
(* Verification model of the trading-bot repository.                      *)
(*                                                                         *)
(* Each component of the bot is modelled by one record-valued variable    *)
(* holding the fields of the Python object, one action per public method, *)
(* and one specification per component (SpecDepth, SpecCandles, ...).     *)
(* A component's specification leaves the other components' variables     *)
(* at their constructor values.                                            *)
(***************************************************************************)
EXTENDS Integers, Sequences, FiniteSets, TLC

VARIABLES
    depth,      \* services/bot/depth/depth.py: the fields of one Depth object
    d_pc,       \* position inside Depth.set_snapshot: "idle" or "drain"
    d_last,     \* observation of the last Depth call (history variable)
    candles,    \* services/bot/candles/candles.py: Candles._raw, oldest first
    c_last,     \* observation of the last Candles call (history variable)
    trailing,   \* modules/models/commands.py: the fields of one TrailingStop
    t_last,     \* observation of the last TrailingStop.update (history variable)
    commands,   \* CommandHandler._commands: symbol -> OrderedSet of commands
    cm_last,    \* observation of the last CommandHandler.append (history variable)
    waiting,    \* CommandHandler._waiting: the client order ids it holds
    venue,      \* the exchange: its orders and the quantity of its position
    db,         \* the store: Order and Position documents
    mem,        \* the PositionModel objects of the process
    storage,    \* LocalStorage: the position and the orders it holds
    tasks,      \* the coroutines running handle_place_order / update_order
    o_last,     \* history of the orders: ages of the waiting entries,
                \* applications of each fill, positions created for each order
    startup,    \* Strategy.start: where it is, _ready, hedge mode, leverage
    account,    \* the positions the venue reports in get_account_info
    store,      \* the OPEN Position documents of the strategy in the store
    seeded,     \* the LocalStorage that _set_positions fills
    calc,       \* the inputs of one Strategy.calc_trade_quantity call
    calc_out,   \* what that call returned (history variable)
    line,       \* services/line/server.py: the venue stream and the bus channel of LineServer
    bus,        \* the messages published on the bus, oldest first (history variable)
    consumer,   \* modules/amqp: one bus consumer, the outcome and the acks of each message
    lag,        \* the feed-lag check of the engine: events handled, warnings, stop tasks
    orch,       \* services/bot/orchestrator.py: ExchangeState across resets, the updates applied
    strategy,   \* services/bot/strategies/strategy.py: one strategy, its queue for one symbol, its positions, the last book update handled
    ladder,     \* the position walked by Strategy.check_take_profit, its rules and the latest check
    signal,     \* the rules of Strategy.check_signal and its latest evaluation
    feed,       \* LineServer.prices and the book updates on the bus
    batch,      \* one call of StrategiesOrchestrator._execute
    reader      \* ReplayClient._reader over the stored updates

depthVars == <<depth, d_pc, d_last>>

candlesVars == <<candles, c_last>>

trailingVars == <<trailing, t_last>>

commandsVars == <<commands, cm_last>>

ordersVars == <<waiting, venue, db, mem, storage, tasks, o_last>>

startupVars == <<startup, account, store, seeded>>

quantityVars == <<calc, calc_out>>

lineVars == <<line, bus>>

consumerVars == <<consumer>>

lagVars == <<lag>>

orchestratorVars == <<orch>>

bookVars == <<strategy>>

takeProfitVars == <<ladder>>

signalVars == <<signal>>

feedVars == <<feed>>

batchVars == <<batch>>

replayVars == <<reader>>

vars == <<depth, d_pc, d_last, candles, c_last, trailing, t_last,
          commands, cm_last, waiting, venue, db, mem, storage, tasks, o_last,
          startup, account, store, seeded,
          calc, calc_out,
          line, bus,
          consumer,
          lag,
          orch,
          strategy,
          ladder,
          signal,
          feed,
          batch,
          reader>>

\* the variables of the other components, which a component leaves alone
otherThanDepth ==
    <<candlesVars, trailingVars, commandsVars, ordersVars, startupVars,
      quantityVars, lineVars, consumerVars, lagVars, orchestratorVars,
      bookVars, takeProfitVars, signalVars, feedVars, batchVars,
      replayVars>>

otherThanCandles ==
    <<depthVars, trailingVars, commandsVars, ordersVars, startupVars,
      quantityVars, lineVars, consumerVars, lagVars, orchestratorVars,
      bookVars, takeProfitVars, signalVars, feedVars, batchVars,
      replayVars>>

otherThanTrailing ==
    <<depthVars, candlesVars, commandsVars, ordersVars, startupVars,
      quantityVars, lineVars, consumerVars, lagVars, orchestratorVars,
      bookVars, takeProfitVars, signalVars, feedVars, batchVars,
      replayVars>>

otherThanCommands ==
    <<depthVars, candlesVars, trailingVars, ordersVars, startupVars,
      quantityVars, lineVars, consumerVars, lagVars, orchestratorVars,
      bookVars, takeProfitVars, signalVars, feedVars, batchVars,
      replayVars>>

otherThanOrders ==
    <<depthVars, candlesVars, trailingVars, commandsVars, startupVars,
      quantityVars, lineVars, consumerVars, lagVars, orchestratorVars,
      bookVars, takeProfitVars, signalVars, feedVars, batchVars,
      replayVars>>

otherThanStartup ==
    <<depthVars, candlesVars, trailingVars, commandsVars, ordersVars,
      quantityVars, lineVars, consumerVars, lagVars, orchestratorVars,
      bookVars, takeProfitVars, signalVars, feedVars, batchVars,
      replayVars>>

otherThanQuantity ==
    <<depthVars, candlesVars, trailingVars, commandsVars, ordersVars,
      startupVars, lineVars, consumerVars, lagVars, orchestratorVars,
      bookVars, takeProfitVars, signalVars, feedVars, batchVars,
      replayVars>>

otherThanLine ==
    <<depthVars, candlesVars, trailingVars, commandsVars, ordersVars,
      startupVars, quantityVars, consumerVars, lagVars, orchestratorVars,
      bookVars, takeProfitVars, signalVars, feedVars, batchVars,
      replayVars>>

otherThanConsumer ==
    <<depthVars, candlesVars, trailingVars, commandsVars, ordersVars,
      startupVars, quantityVars, lineVars, lagVars, orchestratorVars,
      bookVars, takeProfitVars, signalVars, feedVars, batchVars,
      replayVars>>

otherThanLag ==
    <<depthVars, candlesVars, trailingVars, commandsVars, ordersVars,
      startupVars, quantityVars, lineVars, consumerVars, orchestratorVars,
      bookVars, takeProfitVars, signalVars, feedVars, batchVars,
      replayVars>>

otherThanOrchestrator ==
    <<depthVars, candlesVars, trailingVars, commandsVars, ordersVars,
      startupVars, quantityVars, lineVars, consumerVars, lagVars,
      bookVars, takeProfitVars, signalVars, feedVars, batchVars,
      replayVars>>

otherThanBook ==
    <<depthVars, candlesVars, trailingVars, commandsVars, ordersVars,
      startupVars, quantityVars, lineVars, consumerVars, lagVars, orchestratorVars,
      takeProfitVars, signalVars, feedVars, batchVars, replayVars>>

otherThanTakeProfit ==
    <<depthVars, candlesVars, trailingVars, commandsVars, ordersVars,
      startupVars, quantityVars, lineVars, consumerVars, lagVars, orchestratorVars,
      bookVars, signalVars, feedVars, batchVars, replayVars>>

otherThanSignal ==
    <<depthVars, candlesVars, trailingVars, commandsVars, ordersVars,
      startupVars, quantityVars, lineVars, consumerVars, lagVars, orchestratorVars,
      bookVars, takeProfitVars, feedVars, batchVars, replayVars>>

otherThanFeed ==
    <<depthVars, candlesVars, trailingVars, commandsVars, ordersVars,
      startupVars, quantityVars, lineVars, consumerVars, lagVars, orchestratorVars,
      bookVars, takeProfitVars, signalVars, batchVars, replayVars>>

otherThanBatch ==
    <<depthVars, candlesVars, trailingVars, commandsVars, ordersVars,
      startupVars, quantityVars, lineVars, consumerVars, lagVars, orchestratorVars,
      bookVars, takeProfitVars, signalVars, feedVars, replayVars>>

otherThanReplay ==
    <<depthVars, candlesVars, trailingVars, commandsVars, ordersVars,
      startupVars, quantityVars, lineVars, consumerVars, lagVars, orchestratorVars,
      bookVars, takeProfitVars, signalVars, feedVars, batchVars>>

(***************************************************************************)
(* Generic helpers                                                         *)
(***************************************************************************)
None == "None"

Range(s) == {s[i] : i \in 1..Len(s)}

(***************************************************************************)
(* Commands (modules/models/commands.py)                                   *)
(*                                                                         *)
(* Prices are integers; callback_rate is the exact decimal                 *)
(* CallbackRateNum / CallbackRateDen, and the Decimal comparisons of       *)
(* TrailingStop are made after multiplying both sides by CallbackRateDen.  *)
(***************************************************************************)
CallbackRateNum == 2     \* callback_rate = 0.02, the largest rate allowed
CallbackRateDen == 100
TrailBase == 100         \* books are drawn around this price
TrailSpread == 3         \* bids are drawn from TrailBase -+ TrailSpread

BookUpdateModel(bid, ask) == [bid |-> bid, ask |-> ask]

PlaceOrder(symbol, position_side, order_side, quantity, context) ==
    [kind |-> "PlaceOrder", contract |-> symbol, next_time |-> FALSE,
     position_side |-> position_side, order_side |-> order_side,
     quantity |-> quantity, context |-> context]

TrailingStop(symbol, book, order_side, next_command) ==
    [kind |-> "TrailingStop", contract |-> symbol, next_time |-> FALSE,
     symbol |-> symbol, book |-> book, order_side |-> order_side,
     callback_rate |-> "0.02", next_command |-> next_command]

\* TrailingStop.stop_size, times CallbackRateDen
StopSize(ts) ==
    IF ts.order_side = "BUY" THEN ts.book.bid * CallbackRateNum
    ELSE ts.book.ask * CallbackRateNum

\* TrailingStop.stop_loss, times CallbackRateDen
StopLoss(ts) ==
    IF ts.order_side = "BUY" THEN ts.book.bid * CallbackRateDen + StopSize(ts)
    ELSE ts.book.ask * CallbackRateDen - StopSize(ts)

\* variant of TrailingTriggered that compares with the reference price
\* itself (the stop size is lost)
TrailingTriggeredNoStopSize(ts, book) ==
    IF book.bid <= 0 \/ book.ask <= 0 THEN FALSE
    ELSE IF ts.order_side = "BUY"
         THEN /\ ~(book.bid * CallbackRateDen + StopSize(ts) < StopLoss(ts))
              /\ book.bid >= ts.book.bid
         ELSE /\ ~(book.ask * CallbackRateDen - StopSize(ts) > StopLoss(ts))
              /\ book.ask <= ts.book.ask

\* the value that TrailingStop.update(book) returns
TrailingTriggered(ts, book) ==
    IF book.bid <= 0 \/ book.ask <= 0 THEN FALSE
    ELSE IF ts.order_side = "BUY"
         THEN /\ ~(book.bid * CallbackRateDen + StopSize(ts) < StopLoss(ts))
              /\ book.bid * CallbackRateDen >= StopLoss(ts)
         ELSE /\ ~(book.ask * CallbackRateDen - StopSize(ts) > StopLoss(ts))
              /\ book.ask * CallbackRateDen <= StopLoss(ts)

\* variant of TrailingUpdated whose reference follows every book that
\* does not trigger
TrailingUpdatedFollows(ts, book) ==
    IF book.bid <= 0 \/ book.ask <= 0 THEN ts
    ELSE IF ts.order_side = "BUY"
         THEN IF book.bid * CallbackRateDen < StopLoss(ts)
              THEN [ts EXCEPT !.book = book] ELSE ts
         ELSE IF book.ask * CallbackRateDen > StopLoss(ts)
              THEN [ts EXCEPT !.book = book] ELSE ts

\* the command after TrailingStop.update(book)
TrailingUpdated(ts, book) ==
    IF book.bid <= 0 \/ book.ask <= 0 THEN ts
    ELSE IF ts.order_side = "BUY"
         THEN IF book.bid * CallbackRateDen + StopSize(ts) < StopLoss(ts)
              THEN [ts EXCEPT !.book = book] ELSE ts
         ELSE IF book.ask * CallbackRateDen - StopSize(ts) > StopLoss(ts)
              THEN [ts EXCEPT !.book = book] ELSE ts

TrailPrices == (TrailBase - TrailSpread)..(TrailBase + TrailSpread)

NormalBooks == {BookUpdateModel(b, b + 1) : b \in TrailPrices}

AbnormalBooks == {BookUpdateModel(0, TrailBase), BookUpdateModel(TrailBase, 0)}

TrailSymbol == "BTCUSDT"

TrailNextCommand == PlaceOrder(TrailSymbol, "LONG", "BUY", "0.5", "None")

Max(a, b) == IF a > b THEN a ELSE b

Min(a, b) == IF a < b THEN a ELSE b

\* history of the reference prices fed to one TrailingStop: the last book,
\* the highest and the lowest of the normal books (the initial one included)
\* and whether the bids have only risen so far
TLastInit(book) ==
    [op |-> "init", triggered |-> FALSE, book |-> book,
     peak_bid |-> book.bid, low_bid |-> book.bid,
     peak_ask |-> book.ask, low_ask |-> book.ask, rising |-> TRUE]

\* TrailingStop.update(book)
TrailingUpdate ==
    /\ trailing.kind = "TrailingStop"
    /\ \E book \in NormalBooks \cup AbnormalBooks :
        LET normal == book.bid > 0 /\ book.ask > 0
        IN /\ trailing' = TrailingUpdated(trailing, book)
           /\ t_last' = [op |-> "update",
                         triggered |-> TrailingTriggered(trailing, book),
                         book |-> book,
                         peak_bid |-> IF normal THEN Max(t_last.peak_bid, book.bid)
                                      ELSE t_last.peak_bid,
                         low_bid |-> IF normal THEN Min(t_last.low_bid, book.bid)
                                     ELSE t_last.low_bid,
                         peak_ask |-> IF normal THEN Max(t_last.peak_ask, book.ask)
                                      ELSE t_last.peak_ask,
                         low_ask |-> IF normal THEN Min(t_last.low_ask, book.ask)
                                     ELSE t_last.low_ask,
                         rising |-> /\ t_last.rising
                                    /\ normal => book.bid >= t_last.peak_bid]
    /\ UNCHANGED otherThanTrailing

TrailingNext == TrailingUpdate

\* no TrailingStop object exists
TrailingIdle ==
    /\ trailing = [kind |-> "None"]
    /\ t_last = [op |-> "none"]


(***************************************************************************)
(* CommandHandler._commands and CommandHandler.append                      *)
(* (services/bot/strategies/command_handler.py)                            *)
(*                                                                         *)
(* A Decimal is written as the string Python prints for it: "0.5" and      *)
(* "0.50" are equal as numbers and differ as text.                         *)
(***************************************************************************)
MaxCommands == 2         \* commands queued for one symbol

Symbols == {"BTCUSDT", "ETHUSDT"}

\* the number a Decimal stands for, in hundredths
DecimalValue(repr) ==
    CASE repr = "0.5"  -> 50
      [] repr = "0.50" -> 50
      [] repr = "1"    -> 100
      [] repr = "0.02" -> 2

BoolStr(b) == IF b THEN "True" ELSE "False"

\* _serialize(self.dict()) of Command.__hash__; of the contract, which is a
\* fixed object for each symbol, only the symbol is written out
RECURSIVE Serialize(_)
Serialize(c) ==
    IF c.kind = "PlaceOrder"
    THEN "(contract=(symbol=" \o c.contract \o ");next_time=" \o BoolStr(c.next_time)
         \o ";position_side=" \o c.position_side
         \o ";order_side=" \o c.order_side
         \o ";quantity=" \o c.quantity
         \o ";context=" \o c.context \o ")"
    ELSE "(contract=(symbol=" \o c.contract \o ");next_time=" \o BoolStr(c.next_time)
         \o ";symbol=" \o c.symbol
         \o ";book=(bid=" \o ToString(c.book.bid) \o ";ask=" \o ToString(c.book.ask) \o ")"
         \o ";order_side=" \o c.order_side
         \o ";callback_rate=" \o c.callback_rate
         \o ";next_command=" \o Serialize(c.next_command) \o ")"

\* Command.__hash__: the hash of the serialized fields
Hash(c) == Serialize(c)

\* pydantic's BaseModel.__eq__: the two dict() are equal, Decimals by value
RECURSIVE CommandEq(_, _)
CommandEq(a, b) ==
    /\ a.kind = b.kind
    /\ a.contract = b.contract
    /\ a.next_time = b.next_time
    /\ a.order_side = b.order_side
    /\ IF a.kind = "PlaceOrder"
       THEN /\ a.position_side = b.position_side
            /\ DecimalValue(a.quantity) = DecimalValue(b.quantity)
            /\ a.context = b.context
       ELSE /\ a.symbol = b.symbol
            /\ a.book = b.book
            /\ DecimalValue(a.callback_rate) = DecimalValue(b.callback_rate)
            /\ CommandEq(a.next_command, b.next_command)

\* key in OrderedSet: an element with the same hash that is also equal
OrderedSetContains(set, key) ==
    \E i \in 1..Len(set) : Hash(set[i]) = Hash(key) /\ CommandEq(set[i], key)

\* variant of OrderedSetAdd that keeps every key (a list)
OrderedSetAddAlways(set, key) == Append(set, key)

\* OrderedSet.add(key)
OrderedSetAdd(set, key) ==
    IF OrderedSetContains(set, key) THEN set ELSE Append(set, key)

\* "command in self._commands": the keys of the dict are symbols, and a
\* command is never equal to a symbol
CommandInDict(command) == command.kind = "Symbol"

\* the commands Strategy.place_order builds for one symbol
PlaceOrders(symbol) ==
    {PlaceOrder(symbol, "LONG", side, quantity, "None") :
        side \in {"BUY", "SELL"}, quantity \in {"0.5", "0.50"}}

TrailingStops(symbol) ==
    {TrailingStop(symbol, BookUpdateModel(TrailBase, TrailBase + 1), side,
                  PlaceOrder(symbol, "LONG", side, "0.5", "None")) :
        side \in {"BUY", "SELL"}}

Commands(symbol) == PlaceOrders(symbol) \cup TrailingStops(symbol)

\* CommandHandler.append(symbol, command) for one symbol
CommandHandlerAppendTo(symbol) ==
    /\ \E command \in Commands(symbol) :
        /\ \/ Len(commands[symbol]) < MaxCommands
           \/ OrderedSetContains(commands[symbol], command)
        /\ commands' =
               IF ~CommandInDict(command)
               THEN [commands EXCEPT ![symbol] = OrderedSetAdd(@, command)]
               ELSE commands
        /\ cm_last' = [op |-> "append", symbol |-> symbol, command |-> command,
                       pre |-> commands[symbol]]
    /\ UNCHANGED otherThanCommands

\* CommandHandler.append(symbol, command)
CommandHandlerAppend == \E symbol \in Symbols : CommandHandlerAppendTo(symbol)

\* the books CommandHandler.handle_trailing_stop may read from
\* state.get_book(symbol): abnormal ones, and bids below, at and above the
\* reference of a queued TrailingStop
ExecuteBooks ==
    AbnormalBooks
        \cup {BookUpdateModel(b, b + 1) :
                  b \in {TrailBase - TrailSpread, TrailBase, TrailBase + TrailSpread}}

\* the symbol whose queue is executed
ExecuteSymbol == TrailSymbol

\* handle_trailing_stop: "triggered = book and command.update(book)"; the
\* book is a BookUpdateModel object, which is truthy
HandleTriggered(command, book) == TrailingTriggered(command, book)

\* handle_trailing_stop: the command object it returns when not triggered
\* (update() has changed it in place, then "next_command.next_time = True")
HandleNotTriggered(command, book) ==
    [TrailingUpdated(command, book) EXCEPT !.next_time = TRUE]

\* a pass of execute that has handled nothing yet: next is next_commands,
\* objects the queued command objects as the pass leaves them, returned the
\* commands handle returned tagged next_time, placed the commands given to
\* handle_place_order, consumed the queued commands whose "while command"
\* loop ended on a None, raised whether handle raised
ExecuteStart ==
    [next |-> <<>>, objects |-> <<>>, returned |-> <<>>, placed |-> <<>>,
     consumed |-> <<>>, raised |-> FALSE]

\* "for command in commands: while command: command = await
\* self.handle(command) ..." from the i-th queued command on; the
\* fail_at-th call of handle_place_order raises (none if there is no such
\* call), which ends execute before "self._commands[symbol] = next_commands"
RECURSIVE ExecuteFrom(_, _, _, _, _)
ExecuteFrom(cmds, i, book, fail_at, acc) ==
    IF i > Len(cmds) THEN acc
    ELSE LET command == cmds[i]
             chained == IF command.kind = "TrailingStop"
                        THEN command.next_command ELSE command
         IN IF command.kind = "TrailingStop" /\ ~HandleTriggered(command, book)
            THEN LET kept == HandleNotTriggered(command, book)
                 IN ExecuteFrom(cmds, i + 1, book, fail_at,
                        [acc EXCEPT !.next = OrderedSetAdd(@, kept),
                                    !.objects = Append(@, kept),
                                    !.returned = Append(@, kept)])
            ELSE IF Len(acc.placed) + 1 = fail_at
                 THEN [acc EXCEPT !.placed = Append(@, chained),
                                  !.objects = @ \o SubSeq(cmds, i, Len(cmds)),
                                  !.raised = TRUE]
                 ELSE ExecuteFrom(cmds, i + 1, book, fail_at,
                          [acc EXCEPT !.placed = Append(@, chained),
                                      !.objects = Append(@, command),
                                      !.consumed = Append(@, command)])

\* CommandHandler.execute(symbol)
CommandHandlerExecute ==
    /\ \E book \in ExecuteBooks, fail_at \in 0..MaxCommands :
        /\ commands[ExecuteSymbol] # <<>>
        /\ LET symbol == ExecuteSymbol
               pass == ExecuteFrom(commands[symbol], 1, book, fail_at, ExecuteStart)
           IN /\ commands' = [commands EXCEPT ![symbol] =
                                  IF pass.raised THEN pass.objects ELSE pass.next]
              /\ cm_last' = [op |-> "execute", symbol |-> symbol, book |-> book,
                             pre |-> commands[symbol], pass |-> pass]
    /\ UNCHANGED otherThanCommands

CommandsNext == CommandHandlerAppend

\* the queue of one symbol, appended to and executed
ExecuteNext ==
    \/ CommandHandlerAppendTo(ExecuteSymbol)
    \/ CommandHandlerExecute

\* no command was ever appended
CommandsIdle ==
    /\ commands = [symbol \in Symbols |-> <<>>]
    /\ cm_last = [op |-> "init"]

(***************************************************************************)
(* CommandHandler.handle_place_order and CommandHandler.update_order       *)
(* (services/bot/strategies/command_handler.py), for one symbol and the    *)
(* LONG position side.  A coroutine runs without interruption from one     *)
(* await to the next; each action below is the completion of the awaited   *)
(* call followed by the code up to the next await.  Prices (the average    *)
(* entry and exit price of a position) are left out.                       *)
(***************************************************************************)
MaxOrders == 2           \* PlaceOrder commands handled
MaxQuantity == 2         \* order quantities are drawn from 1..MaxQuantity
WaitingTtl == 1          \* the 30 s of the waiting map, in units of 30 s

Coids == 1..MaxOrders    \* client order ids; the venue's order id is the same

Pids == 1..(2 * MaxOrders)

Paths == {"rest", "stream"}

TaskIds == Paths \X Coids

\* OrderModel.is_filled
IsFilled(status) == status = "FILLED"

\* OrderModel.is_processed
IsProcessed(status) == status \in {"FILLED", "CANCELED", "REJECTED", "CANCELED"}

\* PositionModel.get_entry_order_side of a LONG position
EntrySide == "BUY"

NoPosition == [status |-> "ABSENT", quantity |-> 0, total_quantity |-> 0, orders |-> <<>>]

NoOrder == [status |-> "ABSENT", side |-> "BUY", quantity |-> 0]

NoTask == [pc |-> "none", side |-> "BUY", quantity |-> 0, status |-> "ABSENT",
           pid |-> 0, snap |-> NoPosition]

\* the PositionModel that _create_position constructs
NewPosition == [status |-> "OPEN", quantity |-> 0, total_quantity |-> 0, orders |-> <<>>]

TaskRunning(t) == tasks[t].pc \notin {"none", "done", "crashed", "ignored"}

\* uuid4: an id that no PositionModel carries yet
FreshPid == CHOOSE p \in Pids : mem[p].status = "ABSENT" /\ \A q \in 1..(p - 1) : mem[q].status # "ABSENT"

\* uuid4: a client order id not used yet
FreshCoid == CHOOSE c \in Coids : tasks[<<"rest", c>>].pc = "none" /\ \A d \in 1..(c - 1) : tasks[<<"rest", d>>].pc # "none"

\* the end of update_order: "if order.is_processed: del self._waiting[...]";
\* the del raises KeyError when the entry is gone
UpdateOrderFinish(t, c, status) ==
    IF IsProcessed(status)
    THEN IF c \in waiting
         THEN /\ waiting' = waiting \ {c}
              /\ tasks' = [tasks EXCEPT ![t].pc = "done"]
         ELSE /\ UNCHANGED waiting
              /\ tasks' = [tasks EXCEPT ![t].pc = "crashed"]
    ELSE /\ UNCHANGED waiting
         /\ tasks' = [tasks EXCEPT ![t].pc = "done"]

\* update_order from "if order.is_filled" up to the next await: either
\* db.create of _create_position or the partial_update of position_id
UpdateOrderPersisted(t, c, status) ==
    IF IsFilled(status)
    THEN IF storage.position = 0
         THEN /\ mem' = [mem EXCEPT ![FreshPid] = NewPosition]
              /\ tasks' = [tasks EXCEPT ![t].pc = "create_position",
                                        ![t].status = status,
                                        ![t].pid = FreshPid]
              /\ UNCHANGED <<waiting, o_last>>
         ELSE /\ tasks' = [tasks EXCEPT ![t].pc = "set_position_id",
                                        ![t].status = status,
                                        ![t].pid = storage.position]
              /\ UNCHANGED <<waiting, mem, o_last>>
    ELSE /\ UpdateOrderFinish(t, c, status)
         /\ UNCHANGED <<mem, o_last>>

\* CommandHandler.symbols
HandlerSymbols == {"BTCUSDT"}

\* command.contract.symbol of the PlaceOrder commands handled
OrderSymbol == "BTCUSDT"

\* an update_order without its two guards
UpdateOrderBailsNever(symbol, c) == FALSE

\* update_order: "if order.symbol not in self.symbols: return" and "if
\* order.client_order_id not in self._waiting: return"
UpdateOrderBails(symbol, c) == symbol \notin HandlerSymbols \/ c \notin waiting

\* update_order(order) up to "await self.db.count" for an order this handler
\* placed: an order whose client order id is not waiting is skipped
UpdateOrderStart(t, c, status) ==
    IF UpdateOrderBails(OrderSymbol, c)
    THEN /\ tasks' = [tasks EXCEPT ![t].pc = "ignored", ![t].status = status]
         /\ UNCHANGED o_last
    ELSE /\ tasks' = [tasks EXCEPT ![t].pc = "count", ![t].status = status]
         /\ o_last' = [o_last EXCEPT !.late = @ \/ o_last.age[c] > WaitingTtl]

\* handle_place_order(command) up to "await self.exchange.place_order";
\* the strategy's callbacks are awaited one after the other
HandlePlaceOrder ==
    /\ \E c \in Coids : tasks[<<"rest", c>>].pc = "none"
    /\ \A c \in Coids : ~TaskRunning(<<"rest", c>>)
    /\ \E side \in {"BUY", "SELL"}, quantity \in 1..MaxQuantity :
        /\ waiting' = waiting \cup {FreshCoid}
        /\ tasks' = [tasks EXCEPT ![<<"rest", FreshCoid>>] =
                        [NoTask EXCEPT !.pc = "placing", !.side = side,
                                       !.quantity = quantity]]
    /\ UNCHANGED <<venue, db, mem, storage, o_last>>

\* exchange.place_order raises (connection lost; FakeExchangeClient:
\* 'Insufficient balance!', 'Invalid quantity!')
PlaceOrderRaises ==
    /\ \E c \in Coids :
        /\ tasks[<<"rest", c>>].pc = "placing"
        /\ tasks' = [tasks EXCEPT ![<<"rest", c>>].pc = "crashed"]
    /\ UNCHANGED <<waiting, venue, db, mem, storage, o_last>>

\* exchange.place_order returns None (BinanceClient._request on a 4xx/5xx
\* answer): "del self._waiting[client_order_id]"
PlaceOrderRejected ==
    /\ \E c \in Coids :
        /\ tasks[<<"rest", c>>].pc = "placing"
        /\ waiting' = waiting \ {c}
        /\ tasks' = [tasks EXCEPT ![<<"rest", c>>].pc = "done"]
    /\ UNCHANGED <<venue, db, mem, storage, o_last>>

\* the venue's position after a fill
VenueFilled(v, c, side, quantity) ==
    [v EXCEPT !.orders[c] = [status |-> "FILLED", side |-> side, quantity |-> quantity],
              !.quantity = IF side = EntrySide THEN @ + quantity ELSE @ - quantity]

\* exchange.place_order returns the order, FILLED or NEW; an exit larger
\* than the venue's position is not accepted
PlaceOrderReturns ==
    /\ \E c \in Coids, status \in {"FILLED", "NEW"} :
        LET t == <<"rest", c>>
            side == tasks[t].side
            quantity == tasks[t].quantity
        IN /\ tasks[t].pc = "placing"
           /\ side # EntrySide => quantity <= venue.quantity
           /\ venue' = IF status = "FILLED"
                       THEN VenueFilled(venue, c, side, quantity)
                       ELSE [venue EXCEPT !.orders[c] =
                                [status |-> "NEW", side |-> side, quantity |-> quantity]]
           /\ IF IsProcessed(status)
              THEN UpdateOrderStart(t, c, status)
              ELSE /\ tasks' = [tasks EXCEPT ![t].pc = "polling", ![t].status = status]
                   /\ UNCHANGED o_last
    /\ UNCHANGED <<waiting, db, mem, storage>>

\* the venue fills a NEW order
VenueFill ==
    /\ \E c \in Coids :
        /\ venue.orders[c].status = "NEW"
        /\ venue.orders[c].side # EntrySide => venue.orders[c].quantity <= venue.quantity
        /\ venue' = VenueFilled(venue, c, venue.orders[c].side, venue.orders[c].quantity)
    /\ UNCHANGED <<waiting, db, mem, storage, tasks, o_last>>

\* the venue expires a NEW order
VenueExpire ==
    /\ \E c \in Coids :
        /\ venue.orders[c].status = "NEW"
        /\ venue' = [venue EXCEPT !.orders[c].status = "EXPIRED"]
    /\ UNCHANGED <<waiting, db, mem, storage, tasks, o_last>>

\* _wait_for_processed: the poll that finds the order processed, followed
\* by update_order(order) up to its first await
WaitForProcessed ==
    /\ \E c \in Coids :
        /\ tasks[<<"rest", c>>].pc = "polling"
        /\ IsProcessed(venue.orders[c].status)
        /\ UpdateOrderStart(<<"rest", c>>, c, venue.orders[c].status)
    /\ UNCHANGED <<waiting, venue, db, mem, storage>>

\* an ORDER_TRADE_UPDATE event of the user stream, sent when the status of
\* an order changes, is handed to update_order, which runs up to its first
\* await
OnOrderTradeUpdate ==
    /\ \E c \in Coids :
        /\ venue.orders[c].status # "ABSENT"
        /\ ~TaskRunning(<<"stream", c>>)
        /\ tasks[<<"stream", c>>].status # venue.orders[c].status
        /\ UpdateOrderStart(<<"stream", c>>, c, venue.orders[c].status)
    /\ UNCHANGED <<waiting, venue, db, mem, storage>>

\* uuid4 of another client: a client order id this handler never drew
ForeignCoid == MaxOrders + 1

NoForeign == [pc |-> "none", symbol |-> "none"]

\* an ORDER_TRADE_UPDATE for an order this handler did not place (an order
\* of another symbol of the account, or one placed by hand on the handler's
\* symbol) is handed to update_order
OnForeignOrderUpdate ==
    /\ o_last.foreign = NoForeign
    /\ \E symbol \in Symbols :
        o_last' = [o_last EXCEPT !.foreign =
                      [pc |-> IF UpdateOrderBails(symbol, ForeignCoid)
                              THEN "ignored" ELSE "count",
                       symbol |-> symbol]]
    /\ UNCHANGED <<waiting, venue, db, mem, storage, tasks>>

\* "count = await self.db.count(...)" completes; "self._waiting[...]" raises
\* KeyError when the entry is gone
UpdateOrderCount ==
    /\ \E t \in TaskIds :
        /\ tasks[t].pc = "count"
        /\ tasks' = [tasks EXCEPT ![t].pc =
                        IF db.orders[t[2]].status # "ABSENT" THEN "partial_update"
                        ELSE IF t[2] \in waiting THEN "create" ELSE "crashed"]
    /\ UNCHANGED <<waiting, venue, db, mem, storage, o_last>>

\* "await self.db.create(order)" completes; the unique index on Order.id
\* makes a second insert raise
UpdateOrderCreate ==
    /\ \E t \in TaskIds :
        LET c == t[2]
        IN /\ tasks[t].pc = "create"
           /\ IF db.orders[c].status # "ABSENT"
              THEN /\ tasks' = [tasks EXCEPT ![t].pc = "crashed"]
                   /\ UNCHANGED <<waiting, db, mem, o_last>>
              ELSE /\ db' = [db EXCEPT !.orders[c] =
                                [status |-> tasks[t].status, position_id |-> 0]]
                   /\ UpdateOrderPersisted(t, c, tasks[t].status)
    /\ UNCHANGED <<venue, storage>>

\* "order = await self.db.partial_update(...)" of the order's fields completes
UpdateOrderMerge ==
    /\ \E t \in TaskIds :
        LET c == t[2]
        IN /\ tasks[t].pc = "partial_update"
           /\ db' = [db EXCEPT !.orders[c].status = tasks[t].status]
           /\ UpdateOrderPersisted(t, c, tasks[t].status)
    /\ UNCHANGED <<venue, storage>>

\* _create_position: "await self.db.create(position)" completes, then
\* storage.add_position; update_order goes on to the partial_update of
\* position_id
CreatePosition ==
    /\ \E t \in TaskIds :
        LET pid == tasks[t].pid
        IN /\ tasks[t].pc = "create_position"
           /\ db' = [db EXCEPT !.positions[pid] = NewPosition]
           /\ storage' = [storage EXCEPT !.position = pid]
           /\ tasks' = [tasks EXCEPT ![t].pc = "set_position_id"]
           /\ o_last' = [o_last EXCEPT !.created[t[2]] = @ + 1]
    /\ UNCHANGED <<waiting, venue, mem>>

\* the position object after the synchronous part of _update_position
UpdatedPosition(position, st, pid, c) ==
    LET order == venue.orders[c]
    IN IF order.side = EntrySide
       THEN [position EXCEPT !.quantity = @ + order.quantity,
                             !.total_quantity = @ + order.quantity,
                             !.orders = Append(@, c)]
       ELSE [position EXCEPT !.quantity = @ - order.quantity,
                             !.status = IF position.quantity - order.quantity = 0
                                        THEN "CLOSED" ELSE @,
                             !.orders = Append(@, c)]

\* "order = await self.db.partial_update(... position_id ...)" completes, then
\* storage.add_order and _update_position up to "await self.db.update"
SetPositionId ==
    /\ \E t \in TaskIds :
        LET c == t[2]
            pid == tasks[t].pid
            st == [storage EXCEPT !.orders[c] = pid]
            position == UpdatedPosition(mem[pid], st, pid, c)
        IN /\ tasks[t].pc = "set_position_id"
           /\ db' = [db EXCEPT !.orders[c].position_id = pid]
           /\ storage' = st
           /\ mem' = [mem EXCEPT ![pid] = position]
           /\ tasks' = [tasks EXCEPT ![t].pc = "update_position", ![t].snap = position]
           /\ o_last' = [o_last EXCEPT !.applied[c] = @ + 1]
    /\ UNCHANGED <<waiting, venue>>

\* _update_position: "await self.db.update(position, ...)" completes; a
\* closed position is dropped from the storage with its orders; then the
\* end of update_order
UpdatePosition ==
    /\ \E t \in TaskIds :
        LET c == t[2]
            pid == tasks[t].pid
        IN /\ tasks[t].pc = "update_position"
           /\ db' = [db EXCEPT !.positions[pid] = tasks[t].snap]
           /\ storage' = IF mem[pid].status = "CLOSED"
                         THEN [position |-> 0,
                               orders |-> [d \in Coids |->
                                   IF storage.orders[d] = pid THEN 0
                                   ELSE storage.orders[d]]]
                         ELSE storage
           /\ UpdateOrderFinish(t, c, tasks[t].status)
    /\ UNCHANGED <<venue, mem, o_last>>

\* thirty seconds pass
Tick ==
    /\ \E c \in waiting : o_last.age[c] <= WaitingTtl
    /\ o_last' = [o_last EXCEPT !.age = [c \in Coids |->
                     IF c \in waiting /\ o_last.age[c] <= WaitingTtl
                     THEN o_last.age[c] + 1 ELSE o_last.age[c]]]
    /\ UNCHANGED <<waiting, venue, db, mem, storage, tasks>>

OrdersNext ==
    /\ \/ HandlePlaceOrder
       \/ PlaceOrderRaises
       \/ PlaceOrderRejected
       \/ PlaceOrderReturns
       \/ VenueFill
       \/ VenueExpire
       \/ WaitForProcessed
       \/ OnOrderTradeUpdate
       \/ UpdateOrderCount
       \/ UpdateOrderCreate
       \/ UpdateOrderMerge
       \/ CreatePosition
       \/ SetPositionId
       \/ UpdatePosition
       \/ Tick
    /\ UNCHANGED otherThanOrders

\* the handler and the venue without the clock of the waiting map, with the
\* orders of other clients
UpdatesNext ==
    /\ \/ HandlePlaceOrder
       \/ PlaceOrderRaises
       \/ PlaceOrderRejected
       \/ PlaceOrderReturns
       \/ VenueFill
       \/ VenueExpire
       \/ WaitForProcessed
       \/ OnOrderTradeUpdate
       \/ OnForeignOrderUpdate
       \/ UpdateOrderCount
       \/ UpdateOrderCreate
       \/ UpdateOrderMerge
       \/ CreatePosition
       \/ SetPositionId
       \/ UpdatePosition
    /\ UNCHANGED otherThanOrders

\* a CommandHandler that has handled nothing, on an empty store and a venue
\* without a position
OrdersIdle ==
    /\ waiting = {}
    /\ venue = [orders |-> [c \in Coids |-> NoOrder], quantity |-> 0]
    /\ db = [orders |-> [c \in Coids |-> [status |-> "ABSENT", position_id |-> 0]],
             positions |-> [p \in Pids |-> NoPosition]]
    /\ mem = [p \in Pids |-> NoPosition]
    /\ storage = [position |-> 0, orders |-> [c \in Coids |-> 0]]
    /\ tasks = [t \in TaskIds |-> NoTask]
    /\ o_last = [age |-> [c \in Coids |-> 0], applied |-> [c \in Coids |-> 0],
                 created |-> [c \in Coids |-> 0], late |-> FALSE,
                 foreign |-> NoForeign]

(***************************************************************************)
(* Strategy.start and Strategy._set_positions                              *)
(* (services/bot/strategies/strategy.py).  A price is a whole number of    *)
(* price units and so is the contract's lot_size.                          *)
(***************************************************************************)
LotSize == 2             \* contract.lot_size, in price units
MaxVenueQuantity == 2    \* the venue reports quantities 0..MaxVenueQuantity
MaxVenuePrice == 4       \* the venue reports entry prices 2..MaxVenuePrice

RulesSymbols == <<"BTCUSDT", "ETHUSDT">>     \* rules.symbols

PositionSides == {"LONG", "SHORT"}

Slots == Symbols \X PositionSides

\* Python's round() of the Decimal n / d: to the nearest integer, a tie to
\* the even one
RoundHalfEven(n, d) ==
    LET q == n \div d
        r == n % d
    IN IF 2 * r < d THEN q
       ELSE IF 2 * r > d THEN q + 1
       ELSE IF q % 2 = 0 THEN q ELSE q + 1

\* helpers.to_decimal_places
ToDecimalPlaces(d, decimal_places) == RoundHalfEven(d, decimal_places) * decimal_places

NoStorePosition ==
    [status |-> "ABSENT", quantity |-> 0, entry_price |-> 0, orders |-> <<>>]

\* what the store may hold for one (symbol, side): nothing, or one OPEN
\* position of quantity 1 entered at MaxVenuePrice by one order, whose id
\* is written as the (symbol, side) itself
StorePositions(slot) ==
    {NoStorePosition,
     [status |-> "OPEN", quantity |-> 1, entry_price |-> MaxVenuePrice,
      orders |-> <<slot>>]}

\* what the venue may report for one (symbol, side)
AccountPositions ==
    {[quantity |-> 0, entry_price |-> 0]}
        \cup [quantity : 1..MaxVenueQuantity, entry_price : 2..MaxVenuePrice]

\* "Match positions" of _set_positions
Matched(symbol, side) ==
    /\ store[<<symbol, side>>].status = "OPEN"
    /\ ToDecimalPlaces(store[<<symbol, side>>].entry_price, LotSize)
           = ToDecimalPlaces(account[<<symbol, side>>].entry_price, LotSize)
    /\ store[<<symbol, side>>].quantity = account[<<symbol, side>>].quantity

\* actual_positions of _set_positions, as position sides
ActualPositions(symbol) == {side \in PositionSides : Matched(symbol, side)}

\* cur_positions of _set_positions, as position sides
CurPositions(symbol) == {side \in PositionSides : account[<<symbol, side>>].quantity > 0}

\* "Check for unknown positions"
UnknownPositionFound(symbol) ==
    Cardinality(ActualPositions(symbol)) # Cardinality(CurPositions(symbol))

\* the ids in the orders[] of the positions, which db.find looks up
OrderIds(symbol, sides) ==
    UNION {Range(store[<<symbol, side>>].orders) : side \in sides}

\* LocalStorage.set_snapshot(symbol, positions, orders)
SetSnapshot(st, symbol, sides) ==
    [positions |-> [slot \in Slots |->
                       IF slot[1] = symbol /\ slot[2] \in sides
                       THEN store[slot] ELSE st.positions[slot]],
     orders |-> [st.orders EXCEPT ![symbol] = OrderIds(symbol, sides)]]

\* an empty LocalStorage
NoSnapshot ==
    [positions |-> [slot \in Slots |-> NoStorePosition],
     orders |-> [symbol \in Symbols |-> {}]]

\* _prepare_resources: the store and the user stream are connected
PrepareResources ==
    /\ startup.pc = "prepare"
    /\ startup' = [startup EXCEPT !.pc = "preload", !.index = 1]
    /\ UNCHANGED <<account, store, seeded>>
    /\ UNCHANGED otherThanStartup

\* _preload_data / _set_positions: one turn of "for symbol in
\* self.rules.symbols"; the RuntimeError ends start()
SetPositions ==
    /\ startup.pc = "preload"
    /\ LET symbol == RulesSymbols[startup.index]
       IN IF UnknownPositionFound(symbol)
          THEN /\ startup' = [startup EXCEPT !.pc = "failed"]
               /\ UNCHANGED seeded
          ELSE /\ startup' = [startup EXCEPT
                     !.leverage = @ \cup {symbol},
                     !.index = @ + 1,
                     !.pc = IF startup.index = Len(RulesSymbols)
                            THEN "configure_mode" ELSE "preload"]
               /\ seeded' = SetSnapshot(seeded, symbol, ActualPositions(symbol))
    /\ UNCHANGED <<account, store>>
    /\ UNCHANGED otherThanStartup

\* _configure_mode: change_position_mode(hedge_mode=True) unless
\* is_hedge_mode() says it is on
ConfigureMode ==
    /\ startup.pc = "configure_mode"
    /\ startup' = [startup EXCEPT
           !.pc = "callbacks",
           !.mode_changes = IF startup.hedge_mode THEN @ ELSE @ + 1,
           !.hedge_mode = TRUE]
    /\ UNCHANGED <<account, store, seeded>>
    /\ UNCHANGED otherThanStartup

\* the start callbacks have run: "self._ready = True"
SetReady ==
    /\ startup.pc = "callbacks"
    /\ startup' = [startup EXCEPT !.pc = "started", !.ready = TRUE]
    /\ UNCHANGED <<account, store, seeded>>
    /\ UNCHANGED otherThanStartup

StartupNext ==
    \/ PrepareResources
    \/ SetPositions
    \/ ConfigureMode
    \/ SetReady

\* a Strategy that was constructed and not started, on an account of the
\* venue whose hedge mode is hedge_mode; leverage holds the symbols
\* change_leverage was called for, mode_changes counts the calls of
\* change_position_mode
StartupFresh(hedge_mode) ==
    [pc |-> "prepare", index |-> 0, ready |-> FALSE, hedge_mode |-> hedge_mode,
     leverage |-> {}, mode_changes |-> 0]

\* no Strategy exists
StartupIdle ==
    /\ startup = [pc |-> "none"]
    /\ account = [slot \in Slots |-> [quantity |-> 0, entry_price |-> 0]]
    /\ store = [slot \in Slots |-> NoStorePosition]
    /\ seeded = NoSnapshot

(***************************************************************************)
(* Strategy.calc_trade_quantity (services/bot/strategies/strategy.py)      *)
(*                                                                         *)
(* Decimals are integers: prices, balances and min_notional in quote       *)
(* units, quantities and lot_size in base units, balance_stake as          *)
(* StakeNum / StakeDen.  The two Decimal divisions of the code are exact   *)
(* to 28 digits, which never moves a quotient of such small operands onto  *)
(* or off a half, so round() is RoundHalfEven of the exact quotient.       *)
(***************************************************************************)
MaxWalletBalance == 6    \* wallet_balance is drawn from 0..MaxWalletBalance
MaxBookPrice == 3        \* book.bid is drawn from 0..MaxBookPrice
MaxLeverage == 2         \* rules.leverage is drawn from 1..MaxLeverage
MaxLotSize == 2          \* contract.lot_size is drawn from 1..MaxLotSize
MaxMinNotional == 4      \* contract.min_notional is drawn from 0..MaxMinNotional
StakeDen == 2            \* balance_stake is StakeNum / StakeDen

\* self.assets: empty, without the quote asset of the contract, or with it
AssetsKinds == {"empty", "no_quote", "quote"}

CalcInputs ==
    [assets : AssetsKinds,
     order_side : {"BUY", "SELL"},
     bid : 0..MaxBookPrice,
     spread : 0..1,
     wallet_balance : 0..MaxWalletBalance,
     stake_num : 1..StakeDen,
     leverage : 1..MaxLeverage,
     lot_size : 1..MaxLotSize,
     min_notional : 0..MaxMinNotional]

\* price = book.bid if order_side is OrderSide.BUY else book.ask
CalcPrice(in) == IF in.order_side = "BUY" THEN in.bid ELSE in.bid + in.spread

\* round(balance * balance_stake * leverage / price / lot_size) * lot_size
CalcRounded(in) ==
    RoundHalfEven(in.wallet_balance * in.stake_num * in.leverage,
                  StakeDen * CalcPrice(in) * in.lot_size) * in.lot_size

\* the same function without the min_notional refusal
CalcTradeQuantityNoRefusal(in) ==
    IF in.assets = "empty" THEN [kind |-> "none", quantity |-> 0]
    ELSE IF CalcPrice(in) <= 0 THEN [kind |-> "none", quantity |-> 0]
    ELSE IF in.assets = "no_quote" THEN [kind |-> "raises", quantity |-> 0]
    ELSE [kind |-> "value", quantity |-> CalcRounded(in)]

\* Strategy.calc_trade_quantity: "none" is the bare return, "raises" the
\* KeyError of self.assets[contract.quote_asset]
CalcTradeQuantity(in) ==
    IF in.assets = "empty" THEN [kind |-> "none", quantity |-> 0]
    ELSE IF CalcPrice(in) <= 0 THEN [kind |-> "none", quantity |-> 0]
    ELSE IF in.assets = "no_quote" THEN [kind |-> "raises", quantity |-> 0]
    ELSE IF CalcRounded(in) * CalcPrice(in) < in.min_notional
         THEN [kind |-> "none", quantity |-> 0]
    ELSE [kind |-> "value", quantity |-> CalcRounded(in)]

CalcPending == [kind |-> "pending", quantity |-> 0]

\* one call of calc_trade_quantity on the inputs drawn at the start
CalcTradeQuantityCall ==
    /\ calc_out = CalcPending
    /\ calc \in CalcInputs
    /\ calc_out' = CalcTradeQuantity(calc)
    /\ UNCHANGED calc
    /\ UNCHANGED otherThanQuantity

QuantityNext == CalcTradeQuantityCall

\* no call is under way
QuantityIdle ==
    /\ calc = [assets |-> "none"]
    /\ calc_out = CalcPending

(***************************************************************************)
(* LineServer (services/line/server.py) on WebSocketClient._fetch          *)
(* (modules/websocket/client.py) and BinanceStreamClient                   *)
(* (modules/exchanges/binance/stream.py).                                  *)
(*                                                                         *)
(* _fetch awaits the connect callbacks before it reads the first message   *)
(* of a connection.  publish (modules/amqp/publisher.py) sends nothing     *)
(* when the channel of the bus is closed.                                  *)
(***************************************************************************)
MaxConnections == 2      \* connections of the venue stream
MaxBus == 3              \* messages published on the bus

LineSymbols == <<"BTCUSDT", "ETHUSDT">>

\* publisher.publish(action, ...): nothing is sent on a closed channel
Publish(action) ==
    IF line.channel_open
    THEN Append(bus, [action |-> action, connection |-> line.connection])
    ELSE bus

\* session.ws_connect succeeds: "self._ready.set()", then the connect
\* callbacks start (BinanceStreamClient._on_connect, LineServer._on_connect)
WsConnect ==
    /\ line.pc = "down"
    /\ line.connection < MaxConnections
    /\ line' = [line EXCEPT !.pc = "subscribe", !.connection = @ + 1,
                            !.subscribed = {}, !.index = 1,
                            !.error = "none"]
    /\ UNCHANGED bus
    /\ UNCHANGED otherThanLine

\* session.ws_connect raises (the venue refuses or cannot be reached):
\* "async with self.session.ws_connect(...)" is outside the try block of
\* _fetch, so the exception leaves the while loop and the task of _fetch
\* ends
WsConnectFails ==
    /\ line.pc = "down"
    /\ line' = [line EXCEPT !.pc = "dead", !.error = "connect"]
    /\ UNCHANGED bus
    /\ UNCHANGED otherThanLine

\* stream.subscribe: one "await self.ws.send_json(SUBSCRIBE ...)"
Subscribe ==
    /\ line.pc = "subscribe"
    /\ line' = [line EXCEPT
           !.subscribed = @ \cup {LineSymbols[line.index]},
           !.index = @ + 1,
           !.pc = IF line.index = Len(LineSymbols) THEN "reset" ELSE "subscribe"]
    /\ UNCHANGED bus
    /\ UNCHANGED otherThanLine

\* send_json raises (the connection is lost): the exception leaves _fetch
\* through "await self._trigger_callbacks('connect')", which is outside its
\* try block, and the task of _fetch ends
SubscribeRaises ==
    /\ line.pc = "subscribe"
    /\ line' = [line EXCEPT !.pc = "dead", !.error = "connect_callback"]
    /\ UNCHANGED bus
    /\ UNCHANGED otherThanLine

\* LineServer._on_connect: publish(action='reset', routing_key='reset');
\* then _fetch enters "async for msg in ws"
PublishReset ==
    /\ line.pc = "reset"
    /\ Len(bus) < MaxBus
    /\ bus' = Publish("reset")
    /\ line' = [line EXCEPT !.pc = "reading"]
    /\ UNCHANGED otherThanLine

\* a message of the connection is read: _on_message, then
\* LineServer._on_trade_update publishes the update
OnTradeUpdate ==
    /\ line.pc = "reading"
    /\ Len(bus) < MaxBus
    /\ bus' = Publish("update")
    /\ UNCHANGED line
    /\ UNCHANGED otherThanLine

\* what ends the connection inside the try block of _fetch: an ERROR
\* message, asyncio.TimeoutError of the receive timeout, aiohttp.ClientError,
\* or any other exception, which a message callback raises
ReadErrors == {"error_message", "timeout", "client_error", "message_callback"}

\* the connection ends: the handler of the error runs, "finally" clears
\* _ready and sleeps reconnect_timeout, and the while loop connects again
WsDisconnect ==
    /\ line.pc = "reading"
    /\ \E error \in ReadErrors :
         line' = [line EXCEPT !.pc = "down", !.error = error]
    /\ UNCHANGED bus
    /\ UNCHANGED otherThanLine

\* the connection to the bus is lost, or restored by connect_robust
ChannelFlips ==
    /\ line.pc # "none"
    /\ line' = [line EXCEPT !.channel_open = ~@]
    /\ UNCHANGED bus
    /\ UNCHANGED otherThanLine

LineNext ==
    \/ WsConnect
    \/ WsConnectFails
    \/ Subscribe
    \/ SubscribeRaises
    \/ PublishReset
    \/ OnTradeUpdate
    \/ WsDisconnect
    \/ ChannelFlips

\* LineServer.start after "await self.publisher.connect()"
LineFresh ==
    [pc |-> "down", connection |-> 0, subscribed |-> {}, index |-> 1,
     channel_open |-> TRUE, error |-> "none"]

\* no LineServer exists
LineIdle ==
    /\ line = [pc |-> "none"]
    /\ bus = <<>>

(***************************************************************************)
(* The consumers of the bus: AMQPConsumer._consume (modules/amqp/          *)
(* consumer.py) and AMQPConnection._message_callback (modules/amqp/        *)
(* pubsub.py).  A message is delivered, its body is decoded, the callbacks *)
(* run, and the message is acknowledged.                                   *)
(***************************************************************************)
MaxMessages == 4         \* messages delivered to the consumer

Messages == 1..MaxMessages

ConsumerImpls == {"AMQPConsumer", "AMQPConnection"}

\* the next message is delivered: "async for message in queue_iter" /
\* the call of _message_callback
Deliver ==
    /\ consumer.pc = "idle"
    /\ consumer.current < MaxMessages
    /\ consumer' = [consumer EXCEPT !.pc = "callbacks", !.current = @ + 1]
    /\ UNCHANGED otherThanConsumer

\* the body is decoded and the callbacks finish: _consume leaves
\* "async with message.process()", which acks; _message_callback goes on
\* to "await channel.basic_client_ack"
CallbacksReturn ==
    /\ consumer.pc = "callbacks"
    /\ consumer' = [consumer EXCEPT
           !.pc = "idle",
           !.outcome[consumer.current] = "returned",
           !.acks[consumer.current] = @ + 1]
    /\ UNCHANGED otherThanConsumer

\* a callback raises: _consume catches the exception inside
\* message.process(), logs it and leaves the block, which acks;
\* _message_callback has no handler, the exception leaves it before
\* basic_client_ack
CallbacksRaise ==
    /\ consumer.pc = "callbacks"
    /\ consumer' = [consumer EXCEPT
           !.pc = "idle",
           !.outcome[consumer.current] = "raised",
           !.acks[consumer.current] =
               IF consumer.impl = "AMQPConsumer" THEN @ + 1 ELSE @]
    /\ UNCHANGED otherThanConsumer

\* the body is not JSON: orjson.loads raises before any callback runs, in
\* _consume inside the same try block, in _message_callback in
\* _deserialize, its first statement
DecodeRaises ==
    /\ consumer.pc = "callbacks"
    /\ consumer' = [consumer EXCEPT
           !.pc = "idle",
           !.outcome[consumer.current] = "undecoded",
           !.acks[consumer.current] =
               IF consumer.impl = "AMQPConsumer" THEN @ + 1 ELSE @]
    /\ UNCHANGED otherThanConsumer

ConsumerNext ==
    \/ Deliver
    \/ CallbacksReturn
    \/ CallbacksRaise
    \/ DecodeRaises

\* a consumer that is subscribed and has received nothing
ConsumerFresh(impl) ==
    [impl |-> impl, pc |-> "idle", current |-> 0,
     outcome |-> [m \in Messages |-> "none"],
     acks |-> [m \in Messages |-> 0]]

\* no consumer exists
ConsumerIdle == consumer = [pc |-> "none"]

(***************************************************************************)
(* The feed-lag check: StrategiesOrchestrator._on_trade_update and         *)
(* _check_delay (services/bot/orchestrator.py) and BaseStrategy.           *)
(* _check_delay (services/bot/strategies/base/strategy.py).  The lag of an *)
(* event is time() * 1000 - timestamp, in milliseconds.                    *)
(***************************************************************************)
MaxEvents == 3           \* feed events handled by one engine

WarnDelay == 2000        \* BaseStrategy: "if diff >= 2000"
CriticalDelay == 10000   \* BaseStrategy: "if diff >= 10000"
SkipDelay == 5000        \* StrategiesOrchestrator: "if diff >= 5000"

\* lags on both sides of every threshold
LagSamples ==
    {0, WarnDelay - 1, WarnDelay, SkipDelay - 1, SkipDelay,
     CriticalDelay - 1, CriticalDelay, CriticalDelay + 1}

LagEngines == {"StrategiesOrchestrator", "BaseStrategy"}

\* StrategiesOrchestrator._check_delay: warns and asks to skip the event at
\* SkipDelay; it creates no task and calls no stop
OrchestratorCheckDelay(diff) ==
    [warned |-> diff >= SkipDelay, skip |-> diff >= SkipDelay,
     stop |-> FALSE]

\* BaseStrategy._check_delay: nothing in replay mode; otherwise a warning at
\* WarnDelay and create_task(self.stop()) at CriticalDelay
BaseStrategyCheckDelay(replay, diff) ==
    IF replay THEN [warned |-> FALSE, skip |-> FALSE, stop |-> FALSE]
    ELSE [warned |-> diff >= WarnDelay, skip |-> FALSE,
          stop |-> diff >= CriticalDelay]

CheckDelay(engine, replay, diff) ==
    IF engine = "StrategiesOrchestrator" THEN OrchestratorCheckDelay(diff)
    ELSE BaseStrategyCheckDelay(replay, diff)

\* one trade (or depth) update is handled by a running engine
OnFeedEvent ==
    /\ lag.pc = "running"
    /\ lag.events < MaxEvents
    /\ \E diff \in LagSamples :
         LET check == CheckDelay(lag.engine, lag.replay, diff) IN
         lag' = [lag EXCEPT
             !.events = @ + 1,
             !.diff = diff,
             !.check = check,
             !.warnings = @ + (IF check.warned THEN 1 ELSE 0),
             !.stop_tasks = @ + (IF check.stop THEN 1 ELSE 0)]
    /\ UNCHANGED otherThanLag

\* a task created by create_task(self.stop()) runs: BaseStrategy.stop
StopTaskRuns ==
    /\ lag.pc = "running"
    /\ lag.stop_tasks > 0
    /\ lag' = [lag EXCEPT !.pc = "stopped"]
    /\ UNCHANGED otherThanLag

LagNext ==
    \/ OnFeedEvent
    \/ StopTaskRuns

\* a started engine that has handled no event
LagFresh(engine, replay) ==
    [engine |-> engine, replay |-> replay, pc |-> "running", events |-> 0,
     diff |-> 0, check |-> [warned |-> FALSE, skip |-> FALSE, stop |-> FALSE],
     warnings |-> 0, stop_tasks |-> 0]

\* no engine exists
LagIdle == lag = [pc |-> "none"]

(***************************************************************************)
(* StrategiesOrchestrator and ExchangeState across a reset of the bus      *)
(* (services/bot/orchestrator.py, services/bot/state.py).  The callbacks   *)
(* are awaited one message at a time by AMQPConsumer._consume.  preload    *)
(* awaits get_contracts, get_book and the candles in turn; each is a REST  *)
(* request that can fail (BinanceClient._request returns None on a status  *)
(* other than 200 and the caller subscripts it, or the session times out). *)
(***************************************************************************)
MaxBusMessages == 4      \* messages consumed by the orchestrator

PreloadSteps == <<"contracts", "book", "candles">>

\* what ExchangeState holds: loaded since the last reset or not
StateLoaded == [contracts |-> TRUE, book |-> TRUE, candles |-> TRUE]
StateStale == [contracts |-> FALSE, book |-> FALSE, candles |-> FALSE]

\* "reset" is consumed: _on_line_reset starts ExchangeState.preload
OnLineReset ==
    /\ orch.pc = "idle"
    /\ orch.messages < MaxBusMessages
    /\ orch' = [orch EXCEPT !.pc = "preload", !.step = 1,
                            !.messages = @ + 1,
                            !.pending = TRUE, !.state = StateStale]
    /\ UNCHANGED otherThanOrchestrator

\* one await of preload returns and its result is stored; after the last
\* one preload has completed and _consume goes on to the next message
PreloadStep ==
    /\ orch.pc = "preload"
    /\ orch' = [orch EXCEPT
           !.state[PreloadSteps[orch.step]] = TRUE,
           !.step = IF orch.step = Len(PreloadSteps) THEN 0 ELSE @ + 1,
           !.pc = IF orch.step = Len(PreloadSteps) THEN "idle" ELSE @,
           !.pending = IF orch.step = Len(PreloadSteps) THEN FALSE ELSE @]
    /\ UNCHANGED otherThanOrchestrator

\* one await of preload raises: the exception leaves preload and
\* _on_line_reset, _consume logs it and goes on to the next message
PreloadRaises ==
    /\ orch.pc = "preload"
    /\ orch' = [orch EXCEPT !.pc = "idle", !.step = 0]
    /\ UNCHANGED otherThanOrchestrator

\* a book or trade update is consumed: _on_book_update / _on_trade_update
\* apply it to ExchangeState and hand it to the strategies
OnUpdate ==
    /\ orch.pc = "idle"
    /\ orch.messages < MaxBusMessages
    /\ \E entity \in {"book", "trade"} :
         orch' = [orch EXCEPT
             !.messages = @ + 1,
             !.applied = Append(@, [entity |-> entity,
                                    pending |-> orch.pending,
                                    state |-> orch.state])]
    /\ UNCHANGED otherThanOrchestrator

OrchestratorNext ==
    \/ OnLineReset
    \/ PreloadStep
    \/ PreloadRaises
    \/ OnUpdate

\* StrategiesOrchestrator.start has preloaded and connected the line
OrchestratorFresh ==
    [pc |-> "idle", step |-> 0, messages |-> 0, pending |-> FALSE,
     state |-> StateLoaded, applied |-> <<>>]

\* no orchestrator exists
OrchestratorIdle == orch = [pc |-> "none"]

(***************************************************************************)
(* A book update for one symbol, as StrategiesOrchestrator._on_book_update *)
(* and ReplayOrchestrator._on_book_update hand it to one Strategy          *)
(* (services/bot/orchestrator.py, services/bot/replay.py,                  *)
(* services/bot/strategies/strategy.py).  The queue of the symbol is kept  *)
(* as the number of its commands; CommandHandler.execute is the pass       *)
(* modelled by ExecuteFrom, here reduced to how many commands it leaves    *)
(* and whether it raises.                                                  *)
(***************************************************************************)
MaxOutgoing == 2         \* commands queued for the symbol between updates
EntryPrice == 4          \* position.entry_price
BookSpan == 2            \* book.bid is drawn from EntryPrice -+ BookSpan

RuleRateNum == 1         \* rules.stop_loss.rate and the take-profit level
RuleRateDen == 4

BookBids == (EntryPrice - BookSpan)..(EntryPrice + BookSpan)

\* PositionSide.values()
BookSides == <<"BOTH", "LONG", "SHORT">>

\* the callers of Strategy.on_book_update
BookCallers == {"StrategiesOrchestrator", "ReplayOrchestrator"}

\* what one call of CommandHandler.execute does to the queue
ExecuteOutcomes == [raises : BOOLEAN, kept : 0..1, last_step : BOOLEAN]

BookStart(s) ==
    [queue |-> s.queue, had_commands |-> s.queue > 0, checks |-> <<>>,
     appended |-> <<>>, executes |-> 0, raised |-> FALSE]

\* await self.command_handler.execute(symbol)
BookExecute(acc, ch) ==
    IF ch.raises THEN [acc EXCEPT !.executes = @ + 1, !.raised = TRUE]
    ELSE [acc EXCEPT !.executes = @ + 1,
                     !.queue = IF ch.kept < @ THEN ch.kept ELSE @]

\* check_stop_loss: "price <= trigger" for LONG on the bid, ">=" for SHORT
\* on the ask
StopLossTriggered(side, book) ==
    IF side = "LONG"
    THEN book.bid * RuleRateDen <= EntryPrice * (RuleRateDen - RuleRateNum)
    ELSE book.ask * RuleRateDen >= EntryPrice * (RuleRateDen + RuleRateNum)

\* check_take_profit: the level of the next step is reached
TakeProfitTriggered(side, book) ==
    IF side = "LONG"
    THEN book.bid * RuleRateDen >= EntryPrice * (RuleRateDen + RuleRateNum)
    ELSE book.ask * RuleRateDen <= EntryPrice * (RuleRateDen - RuleRateNum)

\* check_stop_loss(symbol, position); when triggered it calls
\* close_position, whose close_long(**kwargs) / close_short(**kwargs) lacks
\* the positional symbol: TypeError
CheckStopLoss(acc, s, side, book) ==
    LET called == [acc EXCEPT !.checks = Append(@, <<side, "stop_loss">>)] IN
    IF ~s.rules.stop_loss \/ s.positions[side] # "open" THEN called
    ELSE IF StopLossTriggered(side, book)
         THEN [called EXCEPT !.raised = TRUE]
         ELSE called

\* check_take_profit(symbol, position); the last step closes the position
\* (close_position, TypeError), an earlier step calls place_order with
\* trailing=True, which appends a PlaceOrder, or, with a trailing callback
\* rate in the rules, builds a TrailingStop without symbol and book:
\* ValidationError
CheckTakeProfit(acc, s, side, book, ch) ==
    LET called == [acc EXCEPT !.checks = Append(@, <<side, "take_profit">>)] IN
    IF ~s.rules.take_profit \/ s.positions[side] # "open" THEN called
    ELSE IF ~TakeProfitTriggered(side, book) THEN called
    ELSE IF ch.last_step \/ s.rules.trailing
         THEN [called EXCEPT !.raised = TRUE]
         ELSE [called EXCEPT !.queue = @ + 1,
                             !.appended = Append(@, <<side, "take_profit">>)]

\* the body of "for position_side in PositionSide.values()" for one side
SideChecks(acc, s, side, book, ch) ==
    IF acc.raised \/ s.positions[side] = "none" THEN acc
    ELSE LET sl == CheckStopLoss(acc, s, side, book) IN
         IF sl.raised THEN sl
         ELSE LET tp == CheckTakeProfit(sl, s, side, book, ch) IN
              IF tp.raised THEN tp
              ELSE IF tp.queue > 0 THEN BookExecute(tp, ch) ELSE tp

AllSideChecks(acc, s, book, ch) ==
    SideChecks(SideChecks(SideChecks(acc, s, BookSides[1], book, ch),
                          s, BookSides[2], book, ch),
               s, BookSides[3], book, ch)

StrategyOnBookUpdateNoReturn(s, book, ch) ==
    LET acc == BookStart(s) IN
    IF ~s.in_rules \/ ~s.ready THEN acc
    ELSE IF acc.queue > 0
         THEN AllSideChecks(BookExecute(acc, ch), s, book, ch)
         ELSE AllSideChecks(acc, s, book, ch)

\* variant of StrategyOnBookUpdate without the test of self._ready
StrategyOnBookUpdateAlways(s, book, ch) ==
    LET acc == BookStart(s) IN
    IF ~s.in_rules THEN acc
    ELSE IF acc.queue > 0
         THEN BookExecute(acc, ch)
         ELSE AllSideChecks(acc, s, book, ch)

\* Strategy.on_book_update(symbol)
StrategyOnBookUpdate(s, book, ch) ==
    LET acc == BookStart(s) IN
    IF ~s.in_rules \/ ~s.ready THEN acc
    ELSE IF acc.queue > 0
         THEN BookExecute(acc, ch)
         ELSE AllSideChecks(acc, s, book, ch)

\* StrategiesOrchestrator._on_book_update for one strategy: a strategy with
\* outgoing commands goes to _execute, any other gets on_book_update;
\* ReplayOrchestrator._on_book_update calls on_book_update for every one
CallerOnBookUpdate(caller, s, book, ch) ==
    IF caller = "StrategiesOrchestrator" /\ s.queue > 0
    THEN BookExecute(BookStart(s), ch)
    ELSE StrategyOnBookUpdate(s, book, ch)

\* no book update handled since the positions changed last
BookNoLast ==
    [handled |-> FALSE, caller |-> "none", had_commands |-> FALSE,
     checks |-> <<>>, appended |-> <<>>, bid |-> 0,
     executes |-> 0, raised |-> FALSE]

\* one book update is handled from its arrival to the return of the caller;
\* StrategiesOrchestrator.run_strategy puts the strategy into _strategies
\* when start() has returned, ReplayOrchestrator.run_strategy before it
\* calls start()
OnBookUpdate ==
    /\ strategy.pc = "running"
    /\ \E caller \in BookCallers, bid \in BookBids, ch \in ExecuteOutcomes :
         /\ caller = "StrategiesOrchestrator" => strategy.ready
         /\ LET book == BookUpdateModel(bid, bid + 1)
                done == CallerOnBookUpdate(caller, strategy, book, ch) IN
            strategy' = [strategy EXCEPT
             !.queue = IF done.queue > MaxOutgoing THEN MaxOutgoing
                       ELSE done.queue,
             !.last = [handled |-> TRUE, caller |-> caller,
                       had_commands |-> done.had_commands,
                       checks |-> done.checks,
                       appended |-> done.appended,
                       bid |-> bid,
                       executes |-> done.executes,
                       raised |-> done.raised]]
    /\ UNCHANGED otherThanBook

\* variant of StrategyOnCandlesUpdate without the test of self._ready
StrategyOnCandlesUpdateAlways(s) ==
    IF ~s.in_rules THEN s ELSE [s EXCEPT !.queue = @ + 1]

\* Strategy.on_candles_update(symbol) on a signal: check_signal queues a
\* command through place_order
StrategyOnCandlesUpdate(s) ==
    IF ~s.ready \/ ~s.in_rules THEN s ELSE [s EXCEPT !.queue = @ + 1]

\* a candles update with a signal is handled
BookAppend ==
    /\ strategy.pc = "running"
    /\ strategy.queue < MaxOutgoing
    /\ strategy' = StrategyOnCandlesUpdate(strategy)
    /\ UNCHANGED otherThanBook

\* Strategy.start before "self._ready = True": _set_positions hands an open
\* position of the store to the local storage
BookSetPositions ==
    /\ strategy.pc = "running"
    /\ ~strategy.ready
    /\ \E side \in {"LONG", "SHORT"} :
         /\ strategy.positions[side] = "none"
         /\ strategy' = [strategy EXCEPT !.positions[side] = "open",
                                         !.last = BookNoLast]
    /\ UNCHANGED otherThanBook

\* Strategy.start has finished: self._ready = True
BookReady ==
    /\ strategy.pc = "running"
    /\ ~strategy.ready
    /\ strategy' = [strategy EXCEPT !.ready = TRUE]
    /\ UNCHANGED otherThanBook

\* the user stream opens or closes a position of one side
BookPosition ==
    /\ strategy.pc = "running"
    /\ strategy.ready
    /\ \E side \in {"LONG", "SHORT"}, status \in {"open", "closed"} :
         /\ strategy.positions[side] # status
         /\ strategy' = [strategy EXCEPT !.positions[side] = status,
                                         !.last = BookNoLast]
    /\ UNCHANGED otherThanBook

BookNext ==
    \/ OnBookUpdate
    \/ BookAppend
    \/ BookSetPositions
    \/ BookReady
    \/ BookPosition

BookFresh(in_rules, rules) ==
    [pc |-> "running", ready |-> FALSE, in_rules |-> in_rules,
     rules |-> rules, queue |-> 0,
     positions |-> [side \in {"BOTH", "LONG", "SHORT"} |-> "none"],
     last |-> BookNoLast]

\* no strategy exists
BookIdle == strategy = [pc |-> "none"]

(***************************************************************************)
(* Strategy.check_take_profit (services/bot/strategies/strategy.py)        *)
(*                                                                         *)
(* Quantities are counted in lots (contract.lot_size), levels and stakes   *)
(* in parts of TpDen. The prices drawn divide every min_notional drawn     *)
(* into a terminating decimal, so that the Decimal division of the code is *)
(* exact.                                                                  *)
(***************************************************************************)
TpDen == 4               \* levels and stakes are counted in quarters
TpEntryPrice == 8        \* position.entry_price
MaxTpTotal == 16         \* position.total_quantity, in lots

\* rules.take_profit.steps: the stakes of a ladder sum to 1
Ladders ==
    {<<[level |-> 1, stake |-> 4]>>,
     <<[level |-> 1, stake |-> 2], [level |-> 2, stake |-> 2]>>,
     <<[level |-> 1, stake |-> 1], [level |-> 2, stake |-> 1], [level |-> 4, stake |-> 2]>>}

TpPrices == {4, 5, 8, 10, 16}

TpMinNotionals == {0, 40, 80}

TpTotals == {2, MaxTpTotal}

\* "book.bid >= entry_price * (1 + step.level)" for LONG,
\* "book.ask <= entry_price * (1 - step.level)" for SHORT
TpLevelReached(side, price, level) ==
    IF side = "LONG"
    THEN price * TpDen >= TpEntryPrice * (TpDen + level)
    ELSE price * TpDen <= TpEntryPrice * (TpDen - level)

\* sum([steps[i - 1].stake for i in range(from, to)])
RECURSIVE StakeSum(_, _, _)
StakeSum(steps, from, to) ==
    IF from >= to THEN 0
    ELSE steps[from].stake + StakeSum(steps, from + 1, to)

\* the stakes of the steps after step next_step
RestStakeAfter(steps, next_step) == StakeSum(steps, next_step + 1, Len(steps) + 1)

\* "rest_stake = sum([... for i in range(next_step, steps_count)])"
RestStake(steps, next_step) == StakeSum(steps, next_step, Len(steps))

\* check_take_profit from "if triggered and order_side" on, for step
\* next_step at the price of the position's side: the call it ends with
\* and the quantity handed over. Notionals are multiplied by TpDen.
TpExit(l, next_step, price) ==
    LET step == l.steps[next_step]
        raw == l.total_quantity * step.stake * price
        min == l.min_notional * TpDen
        raised == raw < min
        notional == IF raised THEN min ELSE raw
        diff == notional - raw
        rest == l.total_quantity * RestStake(l.steps, next_step) * price - diff
        whole == rest < min
    IN IF whole \/ notional >= l.quantity * price * TpDen
       THEN [call |-> "close_position", quantity |-> l.quantity]
       ELSE [call |-> "place_order",
             quantity |-> RoundHalfEven(notional, price * TpDen)]

\* what the call does: close_position calls close_long / close_short
\* without the positional symbol (TypeError); place_order(trailing=True)
\* builds a TrailingStop without symbol and book when the rules hold a
\* trailing_callback_rate (ValidationError), and appends a PlaceOrder
\* otherwise
TpOutcome(l, exit) ==
    IF exit.call = "close_position" THEN "TypeError"
    ELSE IF l.trailing_callback_rate THEN "ValidationError"
    ELSE "appended"

TpNoLast ==
    [handled |-> FALSE, price |-> 0, step |-> 0, reached |-> FALSE,
     call |-> "none", quantity |-> 0, outcome |-> "none", pre_quantity |-> 0]

\* Strategy.check_take_profit(symbol, position) on a book update that finds
\* the queue of the symbol empty
TpCheckTakeProfit ==
    /\ ladder.pc = "running"
    /\ ladder.queue = <<>>
    /\ \E price \in TpPrices :
        LET next_step == ladder.exits + 1
            skipped == ladder.status = "CLOSED" \/ ladder.quantity = 0
                           \/ Len(ladder.steps) < next_step
            reached == ~skipped /\ TpLevelReached(ladder.side, price,
                                                  ladder.steps[next_step].level)
            exit == IF reached THEN TpExit(ladder, next_step, price)
                    ELSE [call |-> "none", quantity |-> 0]
            outcome == IF reached THEN TpOutcome(ladder, exit) ELSE "none"
        IN ladder' = [ladder EXCEPT
               !.queue = IF outcome = "appended" THEN <<exit.quantity>> ELSE <<>>,
               !.last = [handled |-> TRUE, price |-> price,
                         step |-> IF skipped THEN 0 ELSE next_step,
                         reached |-> reached, call |-> exit.call,
                         quantity |-> exit.quantity, outcome |-> outcome,
                         pre_quantity |-> ladder.quantity]]
    /\ UNCHANGED otherThanTakeProfit

\* the queued exit is placed and filled: update_order records the exit order
\* and _update_position takes its quantity off the position, which is
\* CLOSED when nothing is left
TpExitFilled ==
    /\ ladder.pc = "running"
    /\ ladder.queue # <<>>
    /\ ladder.queue[1] > 0
    /\ ladder' = [ladder EXCEPT
           !.queue = <<>>,
           !.exits = @ + 1,
           !.quantity = @ - ladder.queue[1],
           !.status = IF ladder.quantity - ladder.queue[1] = 0 THEN "CLOSED" ELSE @,
           !.last = TpNoLast]
    /\ UNCHANGED otherThanTakeProfit

\* the venue refuses an exit of quantity zero: place_order raises or
\* returns nothing, and the command is gone
TpExitRefused ==
    /\ ladder.pc = "running"
    /\ ladder.queue # <<>>
    /\ ladder.queue[1] = 0
    /\ ladder' = [ladder EXCEPT !.queue = <<>>, !.last = TpNoLast]
    /\ UNCHANGED otherThanTakeProfit

TakeProfitNext ==
    \/ TpCheckTakeProfit
    \/ TpExitFilled
    \/ TpExitRefused

\* an OPEN position that no exit order has touched
TpFresh(steps, min_notional, trailing_callback_rate, side, total) ==
    [pc |-> "running", steps |-> steps, min_notional |-> min_notional,
     trailing_callback_rate |-> trailing_callback_rate, side |-> side,
     status |-> "OPEN", quantity |-> total, total_quantity |-> total,
     exits |-> 0, queue |-> <<>>, last |-> TpNoLast]

TakeProfitIdle == ladder = [pc |-> "none"]

(***************************************************************************)
(* Strategy.check_signal (services/bot/strategies/strategy.py)             *)
(***************************************************************************)
\* rules.conditions: two indicators for the LONG entry, the first of them
\* configured twice with different parameters, and one for the SHORT entry
SignalConditions ==
    <<[position_side |-> "LONG", order_side |-> "BUY", indicator |-> "RSI", timeframe |-> "5m"],
      [position_side |-> "LONG", order_side |-> "BUY", indicator |-> "MACD", timeframe |-> "5m"],
      [position_side |-> "SHORT", order_side |-> "SELL", indicator |-> "RSI", timeframe |-> "5m"],
      [position_side |-> "LONG", order_side |-> "BUY", indicator |-> "RSI", timeframe |-> "5m"]>>

SignalGroup(condition) == <<condition.position_side, condition.order_side>>

SignalPair(condition) == <<condition.indicator, condition.timeframe>>

\* the keys of output in the order in which setdefault inserts them
RECURSIVE SignalGroupsFrom(_, _)
SignalGroupsFrom(i, acc) ==
    IF i > Len(SignalConditions) THEN acc
    ELSE LET group == SignalGroup(SignalConditions[i])
         IN SignalGroupsFrom(i + 1,
                IF \E j \in 1..Len(acc) : acc[j] = group THEN acc
                ELSE Append(acc, group))

SignalGroups == SignalGroupsFrom(1, <<>>)

\* output[group][pair]: the result of the last condition written under
\* the pair
SignalOutput(group, pair, results) ==
    LET written == {i \in 1..Len(SignalConditions) :
                       /\ SignalGroup(SignalConditions[i]) = group
                       /\ SignalPair(SignalConditions[i]) = pair}
        latest == CHOOSE i \in written : \A j \in written : j <= i
    IN results[latest]

\* "triggered_cnt = len(list(filter(lambda i: i is True, results.values())))"
TriggeredCnt(group, results) ==
    Cardinality({pair \in {SignalPair(SignalConditions[i]) :
                              i \in {j \in 1..Len(SignalConditions) :
                                        SignalGroup(SignalConditions[j]) = group}} :
                    SignalOutput(group, pair, results)})

\* the arguments of calc_trade_quantity at the evaluation
SignalCalc(order_side, in) ==
    [assets |-> "quote", order_side |-> order_side, bid |-> in.bid,
     spread |-> in.spread, wallet_balance |-> in.wallet_balance,
     stake_num |-> StakeDen, leverage |-> 1, lot_size |-> 1,
     min_notional |-> MaxMinNotional]

\* "quantity = self.calc_trade_quantity(symbol, self.rules.balance_stake,
\* OrderSide.BUY)", one value for every group
SignalQuantity(order_side, in) == CalcTradeQuantity(SignalCalc("BUY", in))

\* the loop "for (position_side, order_side), results in output.items()"
\* from group i on. place_order builds PlaceOrder(quantity=None) when
\* calc_trade_quantity returned nothing, and a TrailingStop without symbol
\* and book when the rules ask for trailing: pydantic raises ValidationError
RECURSIVE CheckSignalFrom(_, _, _, _)
CheckSignalFrom(s, in, i, acc) ==
    IF i > Len(SignalGroups) THEN acc
    ELSE LET group == SignalGroups[i]
             quantity == SignalQuantity(group[2], in)
         IN IF TriggeredCnt(group, in.results) < s.conditions_trigger_count
                \/ in.orders[group]
            THEN CheckSignalFrom(s, in, i + 1, acc)
            ELSE IF quantity.kind # "value" \/ s.trailing
                 THEN [acc EXCEPT !.raised = TRUE]
                 ELSE CheckSignalFrom(s, in, i + 1,
                          [acc EXCEPT !.appended = Append(@,
                              [position_side |-> group[1], order_side |-> group[2],
                               quantity |-> quantity.quantity])])

\* what one evaluation meets: the results of the conditions on the candles,
\* the book, the balance, and whether the storage holds an order of the
\* group's side on the position of the group
SignalInputs ==
    [results : [1..Len(SignalConditions) -> BOOLEAN],
     bid : 1..2, spread : 0..1,
     wallet_balance : {1, MaxWalletBalance},
     orders : [{SignalGroups[i] : i \in 1..Len(SignalGroups)} -> BOOLEAN]]

SignalNoLast == [handled |-> FALSE]

\* Strategy.check_signal(symbol)
CheckSignal ==
    /\ signal.pc = "running"
    /\ \E in \in SignalInputs :
        LET done == CheckSignalFrom(signal, in, 1, [appended |-> <<>>, raised |-> FALSE])
        IN signal' = [signal EXCEPT !.last =
               [handled |-> TRUE, in |-> in, appended |-> done.appended,
                raised |-> done.raised]]
    /\ UNCHANGED otherThanSignal

SignalNext == CheckSignal

SignalFresh(conditions_trigger_count, rules_trailing) ==
    [pc |-> "running", conditions_trigger_count |-> conditions_trigger_count,
     trailing |-> rules_trailing, last |-> SignalNoLast]

SignalIdle == signal = [pc |-> "none"]

(***************************************************************************)
(* LineServer._on_book_update (services/line/server.py): the book updates  *)
(* of the venue stream are published on the bus when their (bid, ask)      *)
(* differs from LineServer.prices[symbol].  publish (modules/amqp/          *)
(* publisher.py) sends nothing when the channel of the bus is closed.      *)
(***************************************************************************)
FeedSymbols == {"BTCUSDT", "ETHUSDT"}

\* (bid, ask) of a BookUpdateModel
FeedPairs == {<<1, 2>>, <<1, 3>>, <<2, 3>>}

\* "prices = self.prices.get(symbol)": None before the first update
NoPair == <<>>

\* "cur_bid != model.bid or cur_ask != model.ask"
PairChanged(prices, pair) ==
    IF prices = NoPair THEN TRUE
    ELSE prices[1] # pair[1] \/ prices[2] # pair[2]

\* LineServer._on_book_update(symbol, model): prices[symbol] is set before
\* publish is awaited, and publish returns without a word on a closed channel
LineOnBookUpdate(f, symbol, pair) ==
    IF PairChanged(f.prices[symbol], pair)
    THEN [f EXCEPT
             !.prices[symbol] = pair,
             !.published[symbol] = IF f.channel_open THEN pair ELSE @,
             !.last = [handled |-> TRUE, symbol |-> symbol, pair |-> pair,
                       sent |-> f.channel_open,
                       before |-> f.published[symbol]]]
    ELSE [f EXCEPT
             !.last = [handled |-> TRUE, symbol |-> symbol, pair |-> pair,
                       sent |-> FALSE,
                       before |-> f.published[symbol]]]

\* a book update of the venue stream is handled
OnFeedBookUpdate ==
    /\ feed.pc = "running"
    /\ \E symbol \in FeedSymbols, pair \in FeedPairs :
         feed' = LineOnBookUpdate(feed, symbol, pair)
    /\ UNCHANGED otherThanFeed

\* the connection to the bus is lost, or restored by connect_robust
FeedChannelFlips ==
    /\ feed.pc = "running"
    /\ feed' = [feed EXCEPT !.channel_open = ~@]
    /\ UNCHANGED otherThanFeed

FeedNext ==
    \/ OnFeedBookUpdate
    \/ FeedChannelFlips

\* LineServer.start after "await self.publisher.connect()": no price known
FeedFresh ==
    [pc |-> "running",
     prices |-> [symbol \in FeedSymbols |-> NoPair],
     published |-> [symbol \in FeedSymbols |-> NoPair],
     channel_open |-> TRUE,
     last |-> [handled |-> FALSE, symbol |-> "none", pair |-> NoPair,
               sent |-> FALSE, before |-> NoPair]]

\* no LineServer exists
FeedIdle == feed = [pc |-> "none"]

(***************************************************************************)
(* StrategiesOrchestrator._execute and chunked (services/bot/              *)
(* orchestrator.py): the strategies with outgoing commands for the symbol  *)
(* of one feed event are executed in chunks; every chunk is one            *)
(* asyncio.gather without return_exceptions, followed by a sleep.          *)
(***************************************************************************)
ChunkSize == 10          \* self.chunked(strategies, 10)
MaxStrategies == 11      \* strategies with outgoing commands

Min2(a, b) == IF a < b THEN a ELSE b

\* the chunk that chunked yields at position first of a list of n strategies
Chunk(first, n) == first .. Min2(first + ChunkSize - 1, n)

\* the executes that have started and not finished
InFlight(b) == {i \in 1..b.n : b.task[i] = "running"}

\* "for strategies in self.chunked(strategies, 10)": the next chunk is taken
\* and gather starts one execute(symbol) per strategy of the chunk; chunked
\* returns when nothing is left
ExecuteChunk ==
    /\ batch.pc = "chunk"
    /\ batch' =
         IF Chunk(batch.first, batch.n) = {}
         THEN [batch EXCEPT !.pc = "returned"]
         ELSE [batch EXCEPT
                 !.pc = "gather",
                 !.groups = @ + 1,
                 !.overlap = @ \/ InFlight(batch) # {},
                 !.task = [i \in 1..batch.n |->
                             IF i \in Chunk(batch.first, batch.n)
                             THEN "running" ELSE @[i]],
                 !.started = [i \in 1..batch.n |->
                             IF i \in Chunk(batch.first, batch.n)
                             THEN @[i] + 1 ELSE @[i]]]
    /\ UNCHANGED otherThanBatch

\* one execute(symbol) returns; gather returns with the last of its chunk
ExecuteReturns ==
    /\ \E i \in InFlight(batch) :
         batch' = [batch EXCEPT
             !.task[i] = "done",
             !.pc = IF /\ batch.pc = "gather"
                       /\ InFlight(batch) = {i}
                    THEN "sleep" ELSE @]
    /\ UNCHANGED otherThanBatch

\* one execute(symbol) raises: gather hands the first exception to _execute
\* at once and leaves the other executes of the chunk running; _execute has
\* no handler, so the exception ends it
ExecuteRaises ==
    /\ \E i \in InFlight(batch) :
         batch' = [batch EXCEPT
             !.task[i] = "raised",
             !.pc = IF batch.pc = "gather" THEN "raised" ELSE @]
    /\ UNCHANGED otherThanBatch

\* "await asyncio.sleep(0.5)" is over
SleepElapsed ==
    /\ batch.pc = "sleep"
    /\ batch' = [batch EXCEPT !.pc = "chunk", !.first = @ + ChunkSize]
    /\ UNCHANGED otherThanBatch

BatchNext ==
    \/ ExecuteChunk
    \/ ExecuteReturns
    \/ ExecuteRaises
    \/ SleepElapsed

\* _execute(symbol, has_commands) is called with n strategies
BatchFresh(n) ==
    [pc |-> "chunk", n |-> n, first |-> 1, groups |-> 0, overlap |-> FALSE,
     task |-> [i \in 1..n |-> "queued"],
     started |-> [i \in 1..n |-> 0]]

\* no call of _execute
BatchIdle == batch = [pc |-> "none"]

(***************************************************************************)
(* ReplayClient._reader (modules/line_client/replay_client.py): the stored *)
(* updates that match the query are counted, read in ascending order of    *)
(* their timestamp and handed to the update callbacks one by one; the done *)
(* callbacks follow the last update.  The stored updates are numbered in   *)
(* the order of the cursor.                                                *)
(***************************************************************************)
MaxStored == 101         \* stored updates that match the query
ProgressSteps == 100     \* "delta = int(total_cnt / 100)"

\* "delta = int(total_cnt / 100)"
ReaderDelta(total_cnt) == total_cnt \div ProgressSteps

\* "processed_cnt % delta == 0": ZeroDivisionError when delta is 0
ProgressCheck(processed_cnt, delta) ==
    IF delta = 0 THEN "ZeroDivisionError"
    ELSE IF processed_cnt % delta = 0 THEN "logged" ELSE "silent"

\* one pass of "async for log in self.db.find_iter(...)": the update
\* callbacks are awaited, processed_cnt is counted up and the progress is
\* checked; an exception ends the task of _reader
ReaderDeliver ==
    /\ reader.pc = "reading"
    /\ reader.processed_cnt < reader.total_cnt
    /\ LET processed_cnt == reader.processed_cnt + 1
           check == ProgressCheck(processed_cnt, ReaderDelta(reader.total_cnt))
       IN  reader' = [reader EXCEPT
               !.delivered = Append(@, processed_cnt),
               !.processed_cnt = processed_cnt,
               !.pc = IF check = "ZeroDivisionError" THEN "raised" ELSE @]
    /\ UNCHANGED otherThanReplay

\* the cursor is exhausted: "await self._trigger_callbacks('done')"
ReaderDone ==
    /\ reader.pc = "reading"
    /\ reader.processed_cnt = reader.total_cnt
    /\ reader' = [reader EXCEPT !.done = @ + 1, !.pc = "finished"]
    /\ UNCHANGED otherThanReplay

ReplayNext ==
    \/ ReaderDeliver
    \/ ReaderDone

\* _reader after "total_cnt = await self.db.count(UpdateLogModel, query)"
ReplayFresh(total_cnt) ==
    [pc |-> "reading", total_cnt |-> total_cnt, processed_cnt |-> 0,
     delivered |-> <<>>, done |-> 0]

\* no ReplayClient is connected
ReplayIdle == reader = [pc |-> "none"]

(***************************************************************************)
(* Depth (services/bot/depth/depth.py)                                     *)
(*                                                                         *)
(* A container (self._bids / self._asks) is a Python dict; it is modelled *)
(* as the sequence of its <<price, quantity>> items in insertion order,   *)
(* because Depth._update rebuilds the dict from a stable sort.            *)
(***************************************************************************)
DepthLimit == 2          \* Depth(limit=...)
MaxUpdateId == 4         \* update ids are drawn from 1..MaxUpdateId
MaxQueue == 3            \* bound on the length of the pending queue

HasPrice(container, price) == \E i \in 1..Len(container) : container[i][1] = price

PopPrice(container, price) == SelectSeq(container, LAMBDA e : e[1] # price)

SetPrice(container, price, quantity) ==
    IF HasPrice(container, price)
    THEN [i \in 1..Len(container) |->
            IF container[i][1] = price THEN <<price, quantity>> ELSE container[i]]
    ELSE Append(container, <<price, quantity>>)

\* insert e behind every element whose quantity is not larger (stable)
RECURSIVE InsertByQuantity(_, _)
InsertByQuantity(e, s) ==
    IF s = <<>> THEN <<e>>
    ELSE IF e[2] < Head(s)[2] THEN <<e>> \o s
    ELSE <<Head(s)>> \o InsertByQuantity(e, Tail(s))

\* sorted(container, key=container.get): stable, ascending by quantity
RECURSIVE SortedByGet(_)
SortedByGet(s) ==
    IF s = <<>> THEN <<>>
    ELSE InsertByQuantity(s[Len(s)], SortedByGet(SubSeq(s, 1, Len(s) - 1)))

FirstN(s, n) == SubSeq(s, 1, IF Len(s) < n THEN Len(s) ELSE n)

\* one iteration of the loop of Depth._update
DepthUpdateItem(container, item) ==
    LET price == item[1]
        quantity == item[2]
    IN IF quantity = 0
       THEN PopPrice(container, price)
       ELSE LET is_sort_required == ~HasPrice(container, price)
                c1 == SetPrice(container, price, quantity)
            IN IF is_sort_required
               THEN FirstN(SortedByGet(c1), DepthLimit)
               ELSE c1

\* Depth._update(items, container)
RECURSIVE Depth_update(_, _)
Depth_update(items, container) ==
    IF items = <<>> THEN container
    ELSE Depth_update(Tail(items), DepthUpdateItem(container, Head(items)))

DepthInit ==
    [bids |-> <<>>, asks |-> <<>>,
     last_update_id |-> 0,
     is_snapshot_set |-> FALSE,
     is_first_update_processed |-> FALSE,
     queue |-> <<>>]

\* body of Depth.set_snapshot before the drain loop
DepthSnapshotHead(d, model) ==
    [d EXCEPT !.bids = Depth_update(model.bids, <<>>),
              !.asks = Depth_update(model.asks, <<>>),
              !.last_update_id = model.last_update_id,
              !.is_snapshot_set = TRUE]

DepthApply(d, model) ==
    [d EXCEPT !.bids = Depth_update(model.bids, d.bids),
              !.asks = Depth_update(model.asks, d.asks),
              !.last_update_id = model.last_update_id]

\* the gap branch of Depth.update: self._asks.clear() is executed twice,
\* self._bids is left as it is
DepthGapReset(d) ==
    [d EXCEPT !.last_update_id = 0,
              !.is_snapshot_set = FALSE,
              !.is_first_update_processed = FALSE,
              !.asks = <<>>]

\* variant of DepthUpdateOutcome that accepts any update newer than the
\* snapshot as the first one (the straddle test is lost)
DepthUpdateOutcomeNoStraddle(d, model) ==
    IF ~d.is_snapshot_set THEN "queued"
    ELSE IF d.is_first_update_processed
         THEN IF model.first_update_id = d.last_update_id + 1 THEN "applied" ELSE "gap"
         ELSE IF model.last_update_id <= d.last_update_id THEN "dropped"
              ELSE "first"

\* Depth.update(model): the outcome names the branch that was taken
DepthUpdateOutcome(d, model) ==
    IF ~d.is_snapshot_set THEN "queued"
    ELSE IF d.is_first_update_processed
         THEN IF model.first_update_id = d.last_update_id + 1 THEN "applied" ELSE "gap"
         ELSE IF model.last_update_id <= d.last_update_id THEN "dropped"
              ELSE IF \/ d.last_update_id = 0
                      \/ /\ model.first_update_id <= d.last_update_id + 1
                         /\ d.last_update_id + 1 <= model.last_update_id
                   THEN "first"
                   ELSE "ignored"

DepthUpdateState(d, model) ==
    LET outcome == DepthUpdateOutcome(d, model)
    IN CASE outcome = "queued"  -> [d EXCEPT !.queue = Append(d.queue, model)]
         [] outcome = "applied" -> DepthApply(d, model)
         [] outcome = "gap"     -> DepthGapReset(d)
         [] outcome = "first"   -> [DepthApply(d, model) EXCEPT !.is_first_update_processed = TRUE]
         [] OTHER               -> d

\* inputs of the Depth specification: the ids are free, the diffs that an
\* update carries are fixed by its ids
DepthModels ==
    {[last_update_id |-> i, bids |-> << <<1, 1>> >>, asks |-> << <<2, 1>> >>] :
        i \in 0..(MaxUpdateId - 1)}

DepthUpdateIds ==
    {p \in (1..MaxUpdateId) \X (1..MaxUpdateId) : p[1] <= p[2]}

DepthUpdateModels ==
    {[first_update_id |-> p[1], last_update_id |-> p[2],
      bids |-> << <<p[2], 1 + (p[1] % 2)>> >>,
      asks |-> IF p[1] = p[2] THEN << <<p[1], 0>> >> ELSE << <<p[1], 1>> >>] :
        p \in DepthUpdateIds}

\* history: what the last call did.  applied_last is the last_update_id of
\* the update applied most recently since the latest set_snapshot (NoId if
\* there is none), snap_id the last_update_id of the latest snapshot.
NoId == 0 - 1

DLastInit ==
    [op |-> "init", outcome |-> "none", first |-> 0, last |-> 0,
     pre_first |-> FALSE, pre_set |-> FALSE, prev_applied |-> NoId,
     applied_last |-> NoId, snap_id |-> NoId, fired |-> 0, iter |-> 0]

DLastAfterUpdate(d, model, op) ==
    LET outcome == DepthUpdateOutcome(d, model)
    IN [op |-> op, outcome |-> outcome,
        first |-> model.first_update_id, last |-> model.last_update_id,
        pre_first |-> d.is_first_update_processed,
        pre_set |-> d.is_snapshot_set,
        prev_applied |-> d_last.applied_last,
        applied_last |-> IF outcome \in {"first", "applied"}
                         THEN model.last_update_id ELSE d_last.applied_last,
        snap_id |-> d_last.snap_id,
        \* self._trigger_callbacks(self._gap_callbacks): one registered callback
        fired |-> IF outcome = "gap" THEN 1 ELSE 0,
        \* parity of the number of iterations of the drain loop
        iter |-> IF op = "drain" THEN 1 - d_last.iter ELSE 0]

\* Depth.update(model) called by the owner of the object
DepthUpdate ==
    /\ d_pc = "idle"
    /\ \E model \in DepthUpdateModels :
        /\ ~depth.is_snapshot_set => Len(depth.queue) < MaxQueue
        /\ depth' = DepthUpdateState(depth, model)
        /\ d_last' = DLastAfterUpdate(depth, model, "update")
    /\ UNCHANGED d_pc

\* Depth.set_snapshot(model) up to the first test of the while loop
DepthSetSnapshot ==
    /\ d_pc = "idle"
    /\ \E model \in DepthModels :
        /\ depth' = DepthSnapshotHead(depth, model)
        /\ d_last' = [DLastInit EXCEPT !.op = "set_snapshot",
                                       !.pre_first = depth.is_first_update_processed,
                                       !.pre_set = depth.is_snapshot_set,
                                       !.snap_id = model.last_update_id]
    /\ d_pc' = IF depth.queue = <<>> THEN "idle" ELSE "drain"

\* one iteration of "while not self._queue.empty()": get an item, update(item).
\* No other call can run until the loop ends (set_snapshot is synchronous).
DepthDrainStep ==
    /\ d_pc = "drain"
    /\ LET item == Head(depth.queue)
           d1 == [depth EXCEPT !.queue = Tail(depth.queue)]
       IN /\ depth' = DepthUpdateState(d1, item)
          /\ d_last' = DLastAfterUpdate(d1, item, "drain")
          /\ d_pc' = IF depth'.queue = <<>> THEN "idle" ELSE "drain"

DepthNext ==
    /\ DepthUpdate \/ DepthSetSnapshot \/ DepthDrainStep
    /\ UNCHANGED otherThanDepth

DepthIdle ==
    /\ depth = DepthInit
    /\ d_pc = "idle"
    /\ d_last = DLastInit

CandlesIdle ==
    /\ candles = <<>>
    /\ c_last = [op |-> "init", tick |-> None, appended |-> 0, count |-> 0]

InitDepth ==
    /\ DepthIdle /\ CandlesIdle /\ TrailingIdle /\ CommandsIdle /\ OrdersIdle
    /\ StartupIdle
    /\ QuantityIdle
    /\ LineIdle
    /\ ConsumerIdle
    /\ LagIdle
    /\ OrchestratorIdle
    /\ BookIdle
    /\ TakeProfitIdle
    /\ SignalIdle
    /\ FeedIdle
    /\ BatchIdle
    /\ ReplayIdle

SpecDepth == InitDepth /\ [][DepthNext]_vars

\* the drain loop of set_snapshot keeps running once it is entered
SpecDepthFair ==
    /\ SpecDepth
    /\ WF_vars(/\ DepthDrainStep
               /\ UNCHANGED otherThanDepth)

(***************************************************************************)
(* Candles (services/bot/candles/candles.py)                               *)
(*                                                                         *)
(* Time is counted in units of 15 minutes: the aggregator modelled is the  *)
(* one of the 30m timeframe, and an hour has 4 units.                      *)
(***************************************************************************)
TimeframeMs == 2         \* TIMEFRAME_S['30m'] * 1000, in units of 15 minutes
HourMs == 4              \* one hour, in units of 15 minutes
CandlesLimit == 3        \* Candles(candles_limit=...)
MaxTimestamp == 9        \* trade timestamps are drawn from 0..MaxTimestamp
MaxPrice == 2            \* trade prices are drawn from 1..MaxPrice
MaxVolume == 2           \* bound on the volume accumulated in one candle
MaxTicks == 3            \* trades fed to the aggregator of the scenarios

Candle(ts, o, h, l, c, v) ==
    [timestamp |-> ts, open |-> o, high |-> h, low |-> l, close |-> c, volume |-> v]

FlatCandle(ts, price, volume) == Candle(ts, price, price, price, price, volume)

\* Candles._append(candle)
Candles_append(raw, candle) ==
    LET r1 == Append(raw, candle)
    IN IF Len(r1) > CandlesLimit THEN Tail(r1) ELSE r1

\* variant of Candles_update that leaves high and low as they are
Candles_updateKeepsRange(raw, close, volume) ==
    [raw EXCEPT ![Len(raw)] = [@ EXCEPT !.close = close, !.volume = volume]]

\* Candles._update(index=-1, close, volume)
Candles_update(raw, close, volume) ==
    LET n == Len(raw)
        c0 == raw[n]
        c1 == [c0 EXCEPT !.close = close, !.volume = volume]
        c2 == IF close < c1.low THEN [c1 EXCEPT !.low = close] ELSE c1
        c3 == IF close > c2.high THEN [c2 EXCEPT !.high = close] ELSE c2
    IN [raw EXCEPT ![n] = c3]

\* the bar-open that seeds an empty ring: the hour of the trade, plus one
\* hour when the minute is 30 or more
SeedTimestamp(hour_ms, t) ==
    (t \div hour_ms) * hour_ms + ((2 * (t % hour_ms)) \div hour_ms) * hour_ms

\* variant of MissingCnt that counts the bar of the trade as missing too
MissingCntWithTrade(timeframe_ms, ts, last_ts) == (ts - last_ts) \div timeframe_ms

\* int((a - b) / timeframe_ms) - 1
MissingCnt(timeframe_ms, ts, last_ts) == ((ts - last_ts) \div timeframe_ms) - 1

\* variant of AppendMissing that fills with the period doubled
RECURSIVE AppendMissingSparse(_, _, _, _, _, _)
AppendMissingSparse(timeframe_ms, raw, last_ts, price, n, missing_cnt) ==
    IF n > missing_cnt THEN raw
    ELSE AppendMissingSparse(timeframe_ms,
                             Candles_append(raw, FlatCandle(last_ts + timeframe_ms * n * 2,
                                                            price, 0)),
                             last_ts, price, n + 1, missing_cnt)

\* the loop "for n in range(1, missing_cnt + 1)" of Candles.update
RECURSIVE AppendMissing(_, _, _, _, _, _)
AppendMissing(timeframe_ms, raw, last_ts, price, n, missing_cnt) ==
    IF n > missing_cnt THEN raw
    ELSE AppendMissing(timeframe_ms,
                       Candles_append(raw, FlatCandle(last_ts + timeframe_ms * n, price, 0)),
                       last_ts, price, n + 1, missing_cnt)

\* the tick type that Candles.update(model) returns
CandlesTickType(timeframe_ms, raw, model) ==
    IF raw = <<>> THEN None
    ELSE LET last_candle == raw[Len(raw)]
         IN IF model.timestamp < last_candle.timestamp + timeframe_ms THEN "SAME_CANDLE"
            ELSE IF model.timestamp >= last_candle.timestamp + timeframe_ms * 2
                 THEN "MISSING_CANDLE"
                 ELSE "NEW_CANDLE"

\* variant of CandlesUpdateRaw that opens the new candle at the trade's own
\* timestamp instead of one period behind the last candle
CandlesUpdateRawAtTrade(clock, raw, model) ==
    IF raw = <<>>
    THEN Candles_append(raw, FlatCandle(SeedTimestamp(clock.hour_ms, model.timestamp),
                                        model.price, 0))
    ELSE LET last_candle == raw[Len(raw)]
             tick_type == CandlesTickType(clock.timeframe_ms, raw, model)
         IN CASE tick_type = "SAME_CANDLE" ->
                    Candles_update(raw, model.price, last_candle.volume + model.quantity)
              [] tick_type = "MISSING_CANDLE" ->
                    AppendMissing(clock.timeframe_ms, raw, last_candle.timestamp,
                                  last_candle.close, 1,
                                  MissingCnt(clock.timeframe_ms, model.timestamp,
                                             last_candle.timestamp))
              [] OTHER ->
                    Candles_append(raw, FlatCandle(model.timestamp, model.price, model.quantity))

\* the ring after Candles.update(model); clock holds self.timeframe_ms and
\* the length of an hour in the unit of the timestamps
CandlesUpdateRaw(clock, raw, model) ==
    IF raw = <<>>
    THEN Candles_append(raw, FlatCandle(SeedTimestamp(clock.hour_ms, model.timestamp),
                                        model.price, 0))
    ELSE LET last_candle == raw[Len(raw)]
             tick_type == CandlesTickType(clock.timeframe_ms, raw, model)
         IN CASE tick_type = "SAME_CANDLE" ->
                    Candles_update(raw, model.price, last_candle.volume + model.quantity)
              [] tick_type = "MISSING_CANDLE" ->
                    AppendMissing(clock.timeframe_ms, raw, last_candle.timestamp,
                                  last_candle.close, 1,
                                  MissingCnt(clock.timeframe_ms, model.timestamp,
                                             last_candle.timestamp))
              [] OTHER ->
                    Candles_append(raw, FlatCandle(last_candle.timestamp + clock.timeframe_ms,
                                                   model.price, model.quantity))

\* the 30m aggregator, in units of 15 minutes
CandlesClock == [timeframe_ms |-> TimeframeMs, hour_ms |-> HourMs]

TradeUpdateModels ==
    [price : 1..MaxPrice, quantity : 0..1, timestamp : 0..MaxTimestamp]

\* Candles.update(model) of an aggregator with the given clock, for a trade
\* drawn from models; with observe the history keeps the trade and the ring
\* it met
CandlesUpdateWith(clock, models, observe) ==
    /\ observe => c_last.count < MaxTicks
    /\ \E model \in models :
        /\ candles # <<>> => candles[Len(candles)].volume + model.quantity <= MaxVolume
        /\ candles' = CandlesUpdateRaw(clock, candles, model)
        /\ c_last' =
             LET tick == CandlesTickType(clock.timeframe_ms, candles, model) IN
             [op |-> IF observe THEN "observed" ELSE "update", tick |-> tick,
              appended |-> IF candles = <<>> THEN 1
                           ELSE IF tick = "MISSING_CANDLE"
                                THEN MissingCnt(clock.timeframe_ms, model.timestamp,
                                                candles[Len(candles)].timestamp)
                                ELSE IF tick = "NEW_CANDLE" THEN 1 ELSE 0,
              count |-> IF observe THEN c_last.count + 1 ELSE 0,
              model |-> IF observe THEN model ELSE <<>>,
              pre |-> IF observe THEN candles ELSE <<>>]
    /\ UNCHANGED otherThanCandles

CandlesUpdate == CandlesUpdateWith(CandlesClock, TradeUpdateModels, FALSE)

\* the 5m aggregator of the scenarios S1..S3, in seconds: every timestamp
\* of the scenarios is a whole number of seconds
TicksClock == [timeframe_ms |-> 300, hour_ms |-> 3600]

\* the trades of S1, S2 and S3 and trades around them; 1700001000 is
\* 22:30:00
TicksTimestamps ==
    {1700000037, 1700000301, 1700000599, 1700000930, 1700001000}

TicksModels ==
    [price : {30100, 30200}, quantity : 0..1, timestamp : TicksTimestamps]

\* the ring of S3: the candle seeded in S1 and the one opened in S2
TicksRing ==
    <<FlatCandle(1700000000, 30000, 0), FlatCandle(1700000300, 30100, 0)>>

TicksUpdate == CandlesUpdateWith(TicksClock, TicksModels, TRUE)

MaxSnapshot == 4         \* candles in a snapshot handed to set_snapshot

\* "candles[-self._candles_limit:]"
LastCandles(list, limit) ==
    IF Len(list) > limit THEN SubSeq(list, Len(list) - limit + 1, Len(list)) ELSE list

\* the loop "for prev, cur in zip(candles, candles[1:])" of set_snapshot,
\* from the pair (list[i], list[i + 1]) on
RECURSIVE SnapshotPairs(_, _, _, _)
SnapshotPairs(timeframe_ms, raw, list, i) ==
    IF i + 1 > Len(list) THEN raw
    ELSE LET prev == list[i]
             cur == list[i + 1]
         IN SnapshotPairs(timeframe_ms,
                          AppendMissing(timeframe_ms, Candles_append(raw, prev),
                                        prev.timestamp, prev.close, 1,
                                        MissingCnt(timeframe_ms, cur.timestamp,
                                                   prev.timestamp)),
                          list, i + 1)

\* the ring after Candles.set_snapshot(list)
CandlesSetSnapshotRaw(timeframe_ms, list) ==
    SnapshotPairs(timeframe_ms, <<>>, LastCandles(list, CandlesLimit), 1)

\* klines as the venue returns them: bar opens on the period, ascending,
\* each bar traded (volume 1)
SnapshotBars == 0..MaxSnapshot

Snapshots ==
    {list \in UNION {[1..n -> [bar : SnapshotBars, close : 1..MaxPrice]] : n \in 0..MaxSnapshot} :
        \A i \in 1..(Len(list) - 1) : list[i].bar < list[i + 1].bar}

SnapshotCandles(list) ==
    [i \in 1..Len(list) |-> FlatCandle(list[i].bar * TimeframeMs, list[i].close, 1)]

\* Candles.set_snapshot(list)
CandlesSetSnapshot ==
    /\ \E list \in Snapshots :
        /\ candles' = CandlesSetSnapshotRaw(CandlesClock.timeframe_ms, SnapshotCandles(list))
        /\ c_last' = [op |-> "set_snapshot", tick |-> None, appended |-> 0, count |-> 0,
                      snapshot |-> SnapshotCandles(list)]
    /\ UNCHANGED otherThanCandles

CandlesNext == CandlesUpdate

InitCandles ==
    /\ DepthIdle /\ CandlesIdle /\ TrailingIdle /\ CommandsIdle /\ OrdersIdle
    /\ StartupIdle
    /\ QuantityIdle
    /\ LineIdle
    /\ ConsumerIdle
    /\ LagIdle
    /\ OrchestratorIdle
    /\ BookIdle
    /\ TakeProfitIdle
    /\ SignalIdle
    /\ FeedIdle
    /\ BatchIdle
    /\ ReplayIdle

\* a fresh aggregator that is fed trades through update()
SpecCandles == InitCandles /\ [][CandlesNext]_vars

\* an aggregator that is loaded with snapshots
SpecSnapshot == InitCandles /\ [][CandlesSetSnapshot]_vars

\* the 5m aggregator, empty or holding the ring of S3
InitTicks ==
    /\ candles \in {<<>>, TicksRing}
    /\ c_last = [op |-> "init", tick |-> None, appended |-> 0, count |-> 0]
    /\ DepthIdle /\ TrailingIdle /\ CommandsIdle /\ OrdersIdle
    /\ StartupIdle /\ QuantityIdle /\ LineIdle /\ ConsumerIdle /\ LagIdle
    /\ OrchestratorIdle /\ BookIdle
    /\ TakeProfitIdle
    /\ SignalIdle
    /\ FeedIdle
    /\ BatchIdle
    /\ ReplayIdle

SpecTicks == InitTicks /\ [][TicksUpdate]_vars

\* a TrailingStop as Strategy.place_order builds it, around the current book
InitTrailing ==
    /\ DepthIdle /\ CandlesIdle /\ CommandsIdle /\ OrdersIdle /\ StartupIdle
    /\ \E side \in {"BUY", "SELL"}, book \in NormalBooks :
        /\ trailing = TrailingStop(TrailSymbol, book, side, TrailNextCommand)
        /\ t_last = TLastInit(book)
    /\ QuantityIdle
    /\ LineIdle
    /\ ConsumerIdle
    /\ LagIdle
    /\ OrchestratorIdle
    /\ BookIdle
    /\ TakeProfitIdle
    /\ SignalIdle
    /\ FeedIdle
    /\ BatchIdle
    /\ ReplayIdle

SpecTrailing == InitTrailing /\ [][TrailingNext]_vars

InitCommands ==
    /\ DepthIdle /\ CandlesIdle /\ TrailingIdle /\ CommandsIdle /\ OrdersIdle
    /\ StartupIdle
    /\ QuantityIdle
    /\ LineIdle
    /\ ConsumerIdle
    /\ LagIdle
    /\ OrchestratorIdle
    /\ BookIdle
    /\ TakeProfitIdle
    /\ SignalIdle
    /\ FeedIdle
    /\ BatchIdle
    /\ ReplayIdle

SpecCommands == InitCommands /\ [][CommandsNext]_vars

SpecExecute == InitCommands /\ [][ExecuteNext]_vars

InitOrders ==
    /\ DepthIdle /\ CandlesIdle /\ TrailingIdle /\ CommandsIdle /\ OrdersIdle
    /\ StartupIdle
    /\ QuantityIdle
    /\ LineIdle
    /\ ConsumerIdle
    /\ LagIdle
    /\ OrchestratorIdle
    /\ BookIdle
    /\ TakeProfitIdle
    /\ SignalIdle
    /\ FeedIdle
    /\ BatchIdle
    /\ ReplayIdle

SpecOrders == InitOrders /\ [][OrdersNext]_vars

SpecUpdates == InitOrders /\ [][UpdatesNext]_vars

\* a Strategy about to start, for any store and any venue account
InitStartup ==
    /\ DepthIdle /\ CandlesIdle /\ TrailingIdle /\ CommandsIdle /\ OrdersIdle
    /\ \E hedge_mode \in BOOLEAN : startup = StartupFresh(hedge_mode)
    /\ account \in [Slots -> AccountPositions]
    /\ store \in [Slots -> UNION {StorePositions(slot) : slot \in Slots}]
    /\ \A slot \in Slots : store[slot] \in StorePositions(slot)
    /\ seeded = NoSnapshot
    /\ QuantityIdle
    /\ LineIdle
    /\ ConsumerIdle
    /\ LagIdle
    /\ OrchestratorIdle
    /\ BookIdle
    /\ TakeProfitIdle
    /\ SignalIdle
    /\ FeedIdle
    /\ BatchIdle
    /\ ReplayIdle

SpecStartup == InitStartup /\ [][StartupNext]_vars

InitQuantity ==
    /\ calc \in CalcInputs
    /\ calc_out = CalcPending
    /\ DepthIdle /\ CandlesIdle /\ TrailingIdle /\ CommandsIdle /\ OrdersIdle
    /\ StartupIdle
    /\ LineIdle
    /\ ConsumerIdle
    /\ LagIdle
    /\ OrchestratorIdle
    /\ BookIdle
    /\ TakeProfitIdle
    /\ SignalIdle
    /\ FeedIdle
    /\ BatchIdle
    /\ ReplayIdle

SpecQuantity == InitQuantity /\ [][QuantityNext]_vars

InitLine ==
    /\ line = LineFresh
    /\ bus = <<>>
    /\ DepthIdle /\ CandlesIdle /\ TrailingIdle /\ CommandsIdle /\ OrdersIdle
    /\ StartupIdle /\ QuantityIdle
    /\ ConsumerIdle
    /\ LagIdle
    /\ OrchestratorIdle
    /\ BookIdle
    /\ TakeProfitIdle
    /\ SignalIdle
    /\ FeedIdle
    /\ BatchIdle
    /\ ReplayIdle

SpecLine == InitLine /\ [][LineNext]_vars

InitConsumer ==
    /\ \E impl \in ConsumerImpls : consumer = ConsumerFresh(impl)
    /\ DepthIdle /\ CandlesIdle /\ TrailingIdle /\ CommandsIdle /\ OrdersIdle
    /\ StartupIdle /\ QuantityIdle /\ LineIdle
    /\ LagIdle
    /\ OrchestratorIdle
    /\ BookIdle
    /\ TakeProfitIdle
    /\ SignalIdle
    /\ FeedIdle
    /\ BatchIdle
    /\ ReplayIdle

SpecConsumer == InitConsumer /\ [][ConsumerNext]_vars

InitLag ==
    /\ \E engine \in LagEngines, replay \in BOOLEAN :
         /\ engine = "StrategiesOrchestrator" => ~replay
         /\ lag = LagFresh(engine, replay)
    /\ DepthIdle /\ CandlesIdle /\ TrailingIdle /\ CommandsIdle /\ OrdersIdle
    /\ StartupIdle /\ QuantityIdle /\ LineIdle /\ ConsumerIdle
    /\ OrchestratorIdle
    /\ BookIdle
    /\ TakeProfitIdle
    /\ SignalIdle
    /\ FeedIdle
    /\ BatchIdle
    /\ ReplayIdle

SpecLag == InitLag /\ [][LagNext]_vars

InitOrchestrator ==
    /\ orch = OrchestratorFresh
    /\ DepthIdle /\ CandlesIdle /\ TrailingIdle /\ CommandsIdle /\ OrdersIdle
    /\ StartupIdle /\ QuantityIdle /\ LineIdle /\ ConsumerIdle /\ LagIdle
    /\ BookIdle
    /\ TakeProfitIdle
    /\ SignalIdle
    /\ FeedIdle
    /\ BatchIdle
    /\ ReplayIdle

SpecOrchestrator == InitOrchestrator /\ [][OrchestratorNext]_vars

InitBook ==
    /\ \E in_rules \in BOOLEAN,
          rules \in [stop_loss : BOOLEAN, take_profit : BOOLEAN,
                     trailing : BOOLEAN] :
         strategy = BookFresh(in_rules, rules)
    /\ DepthIdle /\ CandlesIdle /\ TrailingIdle /\ CommandsIdle /\ OrdersIdle
    /\ StartupIdle /\ QuantityIdle /\ LineIdle /\ ConsumerIdle /\ LagIdle
    /\ OrchestratorIdle
    /\ TakeProfitIdle
    /\ SignalIdle
    /\ FeedIdle
    /\ BatchIdle
    /\ ReplayIdle

SpecBook == InitBook /\ [][BookNext]_vars

InitTakeProfit ==
    /\ \E steps \in Ladders, min_notional \in TpMinNotionals,
          trailing_callback_rate \in BOOLEAN, side \in {"LONG", "SHORT"},
          total \in TpTotals :
         ladder = TpFresh(steps, min_notional, trailing_callback_rate, side, total)
    /\ DepthIdle /\ CandlesIdle /\ TrailingIdle /\ CommandsIdle /\ OrdersIdle
    /\ StartupIdle /\ QuantityIdle /\ LineIdle /\ ConsumerIdle /\ LagIdle
    /\ OrchestratorIdle /\ BookIdle
    /\ SignalIdle
    /\ FeedIdle
    /\ BatchIdle
    /\ ReplayIdle

SpecTakeProfit == InitTakeProfit /\ [][TakeProfitNext]_vars

InitSignal ==
    /\ \E conditions_trigger_count \in 1..2, rules_trailing \in BOOLEAN :
         signal = SignalFresh(conditions_trigger_count, rules_trailing)
    /\ DepthIdle /\ CandlesIdle /\ TrailingIdle /\ CommandsIdle /\ OrdersIdle
    /\ StartupIdle /\ QuantityIdle /\ LineIdle /\ ConsumerIdle /\ LagIdle
    /\ OrchestratorIdle /\ BookIdle /\ TakeProfitIdle
    /\ FeedIdle
    /\ BatchIdle
    /\ ReplayIdle

SpecSignal == InitSignal /\ [][SignalNext]_vars

InitFeed ==
    /\ feed = FeedFresh
    /\ DepthIdle /\ CandlesIdle /\ TrailingIdle /\ CommandsIdle /\ OrdersIdle
    /\ StartupIdle /\ QuantityIdle /\ LineIdle /\ ConsumerIdle /\ LagIdle
    /\ OrchestratorIdle /\ BookIdle /\ TakeProfitIdle /\ SignalIdle
    /\ BatchIdle
    /\ ReplayIdle

SpecFeed == InitFeed /\ [][FeedNext]_vars

InitBatch ==
    /\ \E n \in 0..MaxStrategies : batch = BatchFresh(n)
    /\ DepthIdle /\ CandlesIdle /\ TrailingIdle /\ CommandsIdle /\ OrdersIdle
    /\ StartupIdle /\ QuantityIdle /\ LineIdle /\ ConsumerIdle /\ LagIdle
    /\ OrchestratorIdle /\ BookIdle /\ TakeProfitIdle /\ SignalIdle
    /\ FeedIdle
    /\ ReplayIdle

SpecBatch == InitBatch /\ [][BatchNext]_vars

InitReplay ==
    /\ \E total_cnt \in 0..MaxStored : reader = ReplayFresh(total_cnt)
    /\ DepthIdle /\ CandlesIdle /\ TrailingIdle /\ CommandsIdle /\ OrdersIdle
    /\ StartupIdle /\ QuantityIdle /\ LineIdle /\ ConsumerIdle /\ LagIdle
    /\ OrchestratorIdle /\ BookIdle /\ TakeProfitIdle /\ SignalIdle
    /\ FeedIdle /\ BatchIdle

SpecReplay == InitReplay /\ [][ReplayNext]_vars

(***************************************************************************)
(* C6: after set_snapshot with last_update_id = U0 the first applied       *)
(* update straddles U0+1, later applied updates are contiguous, and        *)
(* updates with last_update_id <= U0 are dropped without changing the book *)
(***************************************************************************)
DepthStepApplied(o) == o.outcome \in {"first", "applied"}

C6_FirstStraddles(o) ==
    (DepthStepApplied(o) /\ o.prev_applied = NoId)
        => (o.first <= o.snap_id + 1 /\ o.snap_id + 1 <= o.last)

C6_LaterContiguous(o) ==
    (DepthStepApplied(o) /\ o.prev_applied # NoId) => o.first = o.prev_applied + 1

C6_OldDropped(o) ==
    (o.pre_set /\ o.last <= o.snap_id)
        => /\ o.outcome = "dropped"
           /\ depth'.bids = depth.bids
           /\ depth'.asks = depth.asks
           /\ depth'.last_update_id = depth.last_update_id

C7_InOrderApplied ==
    [][(d_last'.op \in {"update", "drain"} /\ depth.is_snapshot_set
          /\ d_last'.prev_applied # NoId /\ d_last'.first = d_last'.prev_applied + 1)
        => d_last'.outcome = "applied"]_vars

\* a skipped id fires the callbacks exactly once, and nothing is applied
\* while the snapshot is not set
C7_GapOnce ==
    [][d_last'.op \in {"update", "drain"}
        => /\ (d_last'.pre_set /\ d_last'.prev_applied # NoId
                 /\ d_last'.first # d_last'.prev_applied + 1)
                => (d_last'.outcome = "gap" /\ d_last'.fired = 1 /\ ~depth'.is_snapshot_set)
           /\ (d_last'.outcome # "gap" => d_last'.fired = 0)
           /\ (~d_last'.pre_set => d_last'.outcome = "queued")]_vars

\* set_snapshot returns, so that processing resumes
C7_Resumes == (d_pc = "drain") ~> (d_pc = "idle")

\* C7 as stated
C7_AsStated == C7_InOrderApplied /\ C7_GapOnce /\ C7_Resumes

(***************************************************************************)
(* C8: fed from empty through update(), the ring's timestamps increase     *)
(* strictly and consecutive candles are exactly one period apart           *)
(***************************************************************************)
C8_ConstantStep ==
    \A i \in 1..(Len(candles) - 1) :
        /\ candles[i].timestamp < candles[i + 1].timestamp
        /\ candles[i + 1].timestamp - candles[i].timestamp = TimeframeMs

\* a trade two or more periods late has just synthesized the missing
\* candles behind a full ring
C8_Witness ==
    /\ c_last.tick = "MISSING_CANDLE"
    /\ c_last.appended >= 2
    /\ Len(candles) = CandlesLimit

(***************************************************************************)
(* C10: a BUY-side TrailingStop does not trigger until the bid has         *)
(* retraced from the highest bid observed by callback_rate x peak_bid      *)
(***************************************************************************)
\* C10 as stated: a trigger needs peak_bid - bid >= callback_rate * peak_bid
C10_AsStated ==
    (trailing.order_side = "BUY" /\ t_last.triggered)
        => (t_last.peak_bid - t_last.book.bid) * CallbackRateDen
               >= CallbackRateNum * t_last.peak_bid

\* C10 amended: a BUY-side TrailingStop triggers only when the bid has risen
\* from the lowest bid observed (the initial reference book included) by at
\* least callback_rate x that lowest bid; while the bids only rise, the
\* lowest bid is the initial one and no retrace is needed
C10_Amended ==
    (trailing.order_side = "BUY" /\ t_last.triggered)
        => /\ (t_last.book.bid - t_last.low_bid) * CallbackRateDen
                  >= CallbackRateNum * t_last.low_bid
           /\ trailing.book.bid = t_last.low_bid

\* a BUY-side stop has triggered on bids that only rose
C10_Witness ==
    /\ trailing.order_side = "BUY"
    /\ t_last.triggered
    /\ t_last.rising
    /\ t_last.book.bid = t_last.peak_bid
    /\ t_last.book.bid > t_last.low_bid

(***************************************************************************)
(* C9: appending a command whose structural hash equals that of a command  *)
(* already queued for the same symbol leaves that queue's length and order *)
(* unchanged                                                               *)
(***************************************************************************)
C9_DuplicateIgnored ==
    (/\ cm_last.op = "append"
     /\ \E i \in 1..Len(cm_last.pre) : Hash(cm_last.pre[i]) = Hash(cm_last.command))
        => commands[cm_last.symbol] = cm_last.pre

\* a command equal in hash to the first of two queued commands was appended
C9_Witness ==
    /\ cm_last.op = "append"
    /\ Len(cm_last.pre) = MaxCommands
    /\ Hash(cm_last.pre[1]) = Hash(cm_last.command)
    /\ cm_last.command.kind = "TrailingStop"

(***************************************************************************)
(* C2: a filled order that reaches update_order more than once leaves one  *)
(* Order record, creates at most one Position and changes the Position's   *)
(* quantity exactly once                                                   *)
(***************************************************************************)
\* update_order was called twice with the filled order c
ReachedTwice(c) ==
    \A path \in Paths :
        /\ tasks[<<path, c>>].status = "FILLED"
        /\ tasks[<<path, c>>].pc \notin {"none", "placing", "polling"}

C2_AsStated ==
    \A c \in Coids :
        ReachedTwice(c) =>
            /\ o_last.created[c] <= 1
            /\ o_last.applied[c] <= 1
            /\ (\A path \in Paths : ~TaskRunning(<<path, c>>)) =>
                   /\ db.orders[c].status = "FILLED"
                   /\ o_last.applied[c] = 1

(***************************************************************************)
(* C1: once the orders have been processed, the quantity of every Position *)
(* is the sum of its entry fills minus the sum of its exit fills, and an   *)
(* OPEN Position has quantity > 0                                          *)
(***************************************************************************)
\* the filled orders the store attaches to position pid
FillsOf(pid) ==
    {c \in Coids : db.orders[c].status = "FILLED" /\ db.orders[c].position_id = pid}

RECURSIVE FillSum(_)
FillSum(ids) ==
    IF ids = {} THEN 0
    ELSE LET c == CHOOSE x \in ids : TRUE
             q == venue.orders[c].quantity
         IN (IF venue.orders[c].side = EntrySide THEN q ELSE 0 - q) + FillSum(ids \ {c})

C1_AsStated ==
    (\A t \in TaskIds : ~TaskRunning(t)) =>
        \A pid \in Pids :
            db.positions[pid].status # "ABSENT" =>
                /\ db.positions[pid].quantity = FillSum(FillsOf(pid))
                /\ mem[pid].quantity = FillSum(FillsOf(pid))
                /\ db.positions[pid].status = "OPEN" => db.positions[pid].quantity > 0

(***************************************************************************)
(* C3: an entry of the waiting map is removed at the latest 30 s after its *)
(* insertion, and an order update that arrives later than that is ignored  *)
(***************************************************************************)
C3_AsStated ==
    /\ \A c \in waiting : o_last.age[c] <= WaitingTtl
    /\ ~o_last.late

(***************************************************************************)
(* C4: a reconciliation mismatch on a symbol does not make startup fail:   *)
(* the symbol is set aside and the strategy reaches ready                  *)
(***************************************************************************)
C4_AsStated ==
    (\E i \in 1..Len(RulesSymbols) : UnknownPositionFound(RulesSymbols[i]))
        => /\ startup.pc # "failed"
           /\ startup.pc = "started" => startup.ready

(***************************************************************************)
(* C5: once startup is over, an OPEN store Position is in the local        *)
(* storage if and only if the venue reports the same (symbol, side) with   *)
(* an equal quantity and an equal entry price after rounding to lot_size,  *)
(* and the local storage holds no position that the store does not hold    *)
(***************************************************************************)
C5_AsStated ==
    startup.pc \in {"started", "failed"} =>
        \A slot \in Slots :
            /\ store[slot].status = "OPEN" =>
                   /\ seeded.positions[slot] = store[slot] <=> Matched(slot[1], slot[2])
                   /\ Range(store[slot].orders) \subseteq seeded.orders[slot[1]]
                          <=> Matched(slot[1], slot[2])
            /\ seeded.positions[slot].status # "ABSENT"
                   => seeded.positions[slot] = store[slot]

(***************************************************************************)
(* C11: calc_trade_quantity returns either no value or a quantity that is *)
(* a multiple of contract.lot_size and whose notional, at book.bid for    *)
(* BUY and book.ask for SELL, is at least contract.min_notional.           *)
(***************************************************************************)
C11_MinNotional ==
    calc_out.kind = "value" =>
        /\ calc_out.quantity % calc.lot_size = 0
        /\ calc_out.quantity * CalcPrice(calc) >= calc.min_notional

\* a SELL priced at the ask returned a rounded, positive quantity
C11_Witness ==
    /\ calc_out.kind = "value"
    /\ calc_out.quantity > 0
    /\ calc.order_side = "SELL" /\ calc.spread = 1
    /\ calc.min_notional > 0
    /\ calc.lot_size > 1
    /\ (calc.wallet_balance * calc.stake_num * calc.leverage)
           % (StakeDen * CalcPrice(calc) * calc.lot_size) # 0

(***************************************************************************)
(* C12: start() runs its steps in a strict order: user stream connected,   *)
(* account fetched, positions reconciled, hedge mode ensured (the mode is  *)
(* changed only if it was off), change_leverage for each configured        *)
(* symbol, and only then ready; ready is never set when a step failed.     *)
(* As a state predicate: change_leverage has been called for no symbol     *)
(* before the hedge-mode step is over, the mode was changed at most once   *)
(* and only to turn it on, and ready holds only in the started state.      *)
(***************************************************************************)
C12_AsStated ==
    /\ startup.leverage # {} => startup.pc \in {"callbacks", "started"}
    /\ startup.mode_changes > 0 => startup.hedge_mode /\ startup.mode_changes = 1
    /\ startup.ready => startup.pc = "started" /\ startup.leverage = Range(RulesSymbols)
    /\ startup.pc = "failed" => ~startup.ready

(***************************************************************************)
(* C20: execute(symbol) handles the queued commands in insertion order: a  *)
(* command whose handle() returns null is removed, one returned tagged     *)
(* next_time is kept, the next_command of a triggered TrailingStop is      *)
(* handled in the same pass, and at the return of execute the queue holds  *)
(* exactly the next_time commands in their original relative order.        *)
(***************************************************************************)
C20_AsStated ==
    cm_last.op = "execute" =>
        LET pass == cm_last.pass
            queue == commands[cm_last.symbol]
        IN /\ \A i \in 1..Len(pass.consumed) :
                  ~OrderedSetContains(queue, pass.consumed[i])
           /\ \A i \in 1..Len(cm_last.pre) :
                  (cm_last.pre[i].kind = "TrailingStop"
                       /\ HandleTriggered(cm_last.pre[i], cm_last.book))
                      => \E j \in 1..Len(pass.placed) :
                             pass.placed[j] = cm_last.pre[i].next_command
           /\ ~pass.raised => queue = pass.returned

(***************************************************************************)
(* C19: for a BUY TrailingStop with reference book R and callback_rate r,  *)
(* update(new) with positive prices replaces R by new if                   *)
(* new.bid + R.bid*r < R.bid*(1+r), otherwise returns triggered if         *)
(* new.bid >= R.bid*(1+r), and otherwise changes nothing and returns not   *)
(* triggered; SELL is the mirror on the ask: R moves to new if             *)
(* new.ask - R.ask*r > R.ask*(1-r), triggered if new.ask <= R.ask*(1-r).   *)
(* Both sides of each comparison are multiplied by CallbackRateDen.        *)
(***************************************************************************)
C19_UpdateRule ==
    [][LET new == t_last'.book
           R == trailing.book
           num == CallbackRateNum
           den == CallbackRateDen
       IN (new.bid > 0 /\ new.ask > 0) =>
              IF trailing.order_side = "BUY"
              THEN IF new.bid * den + R.bid * num < R.bid * (den + num)
                   THEN /\ trailing' = [trailing EXCEPT !.book = new]
                        /\ ~t_last'.triggered
                   ELSE IF new.bid * den >= R.bid * (den + num)
                        THEN t_last'.triggered
                        ELSE trailing' = trailing /\ ~t_last'.triggered
              ELSE IF new.ask * den - R.ask * num > R.ask * (den - num)
                   THEN /\ trailing' = [trailing EXCEPT !.book = new]
                        /\ ~t_last'.triggered
                   ELSE IF new.ask * den <= R.ask * (den - num)
                        THEN t_last'.triggered
                        ELSE trailing' = trailing /\ ~t_last'.triggered]_vars

\* a SELL TrailingStop whose reference had moved up to a new high was
\* triggered by a lower ask
C19_Witness ==
    /\ trailing.kind = "TrailingStop"
    /\ t_last.op = "update"
    /\ trailing.order_side = "SELL"
    /\ t_last.triggered
    /\ trailing.book.ask = t_last.peak_ask
    /\ trailing.book.ask > t_last.low_ask
    /\ t_last.book.ask < trailing.book.ask

(***************************************************************************)
(* C18: a Position is CLOSED if and only if its quantity is 0: the exit    *)
(* fill that brings the quantity to 0 marks it CLOSED, the closed Position *)
(* is persisted and removed with its orders from the local storage, and no *)
(* later fill is attached to a closed Position.  A Position is looked at   *)
(* when no update_order is at work on it.                                  *)
(***************************************************************************)
\* no update_order is between its first and its last write of position pid
PositionAtRest(pid) ==
    \A t \in TaskIds : TaskRunning(t) => tasks[t].pid # pid

C18_ClosedIffZero ==
    \A pid \in Pids :
        (mem[pid].status # "ABSENT" /\ PositionAtRest(pid)) =>
            /\ mem[pid].status = "CLOSED" <=> mem[pid].quantity = 0
            /\ db.positions[pid].status = "CLOSED" <=> db.positions[pid].quantity = 0
            /\ mem[pid].status = "CLOSED" =>
                   /\ db.positions[pid].status = "CLOSED"
                   /\ storage.position # pid
                   /\ \A c \in Coids : storage.orders[c] # pid

C18_AsStated ==
    [][/\ C18_ClosedIffZero'
       /\ \A pid \in Pids :
              mem[pid].status = "CLOSED" => mem'[pid].orders = mem[pid].orders]_vars

(***************************************************************************)
(* C15: after every successful connect or reconnect of the venue stream,   *)
(* reset is published before any update received on the new connection,    *)
(* and every configured symbol has been subscribed on that connection.     *)
(* On the bus: every update of a connection is preceded by the reset of    *)
(* that connection; and whenever updates are read, all symbols are         *)
(* subscribed.                                                             *)
(***************************************************************************)
C15_AsStated ==
    /\ \A i \in 1..Len(bus) :
           bus[i].action = "update" =>
               \E j \in 1..(i - 1) :
                   /\ bus[j].action = "reset"
                   /\ bus[j].connection = bus[i].connection
    /\ line.pc = "reading" => line.subscribed = Range(LineSymbols)

(***************************************************************************)
(* C16: every message delivered to the bus consumer is acknowledged        *)
(* exactly once after its callbacks finish, whether they complete normally *)
(* or raise, and an exception never stops the consumption of later         *)
(* messages: a message whose handling is over has one ack, a message       *)
(* whose handling is not over has none, and the consumer is ready for the  *)
(* next message after every outcome.                                       *)
(***************************************************************************)
C16_AsStated ==
    \A m \in Messages :
        /\ consumer.outcome[m] # "none" => consumer.acks[m] = 1
        /\ consumer.outcome[m] = "none" => consumer.acks[m] = 0
        /\ (consumer.outcome[m] # "none" /\ m = consumer.current)
               => consumer.pc = "idle"

(***************************************************************************)
(* C17: when a feed event's timestamp trails the wall clock by 10 s or     *)
(* more, the engine initiates the orderly shutdown (stop) while it handles *)
(* that event, and a lag below 10 s never initiates it: the check of the   *)
(* last event handled asked for the stop exactly when its lag was at least *)
(* CriticalDelay.                                                          *)
(***************************************************************************)
C17_AsStated ==
    lag.pc # "none" /\ lag.events > 0
        => (lag.check.stop <=> lag.diff >= CriticalDelay)

(***************************************************************************)
(* C14: in the orchestrator, once a reset is observed on the bus, no later *)
(* book or trade update is applied to ExchangeState or delivered to a      *)
(* strategy until ExchangeState.preload (contracts, book and candles) has  *)
(* completed: every update applied was applied with no reset pending and   *)
(* with contracts, book and candles loaded since the last reset.           *)
(***************************************************************************)
C14_AsStated ==
    orch.pc # "none" =>
        \A i \in 1..Len(orch.applied) :
            /\ ~orch.applied[i].pending
            /\ orch.applied[i].state = StateLoaded

(***************************************************************************)
(* C13: on a book update for a symbol, a strategy that has outgoing        *)
(* commands for that symbol only runs CommandHandler.execute(symbol) and   *)
(* performs no stop-loss or take-profit check on that update; the checks   *)
(* run only when the queue of the symbol is empty when the update arrives. *)
(***************************************************************************)
C13_ExecuteOrCheck ==
    (strategy.pc # "none" /\ strategy.last.handled) =>
        /\ strategy.last.had_commands =>
               /\ strategy.last.checks = <<>>
               /\ strategy.last.executes <= 1
               /\ (strategy.ready /\ strategy.in_rules)
                      => strategy.last.executes = 1
        /\ strategy.last.checks # <<>> => ~strategy.last.had_commands

\* a ready strategy with an open LONG position got an update from the replay
\* orchestrator while it had commands, and ran execute
C13_Witness ==
    /\ strategy.pc # "none" /\ strategy.last.handled
    /\ strategy.last.had_commands
    /\ strategy.last.executes = 1
    /\ strategy.last.caller = "ReplayOrchestrator"
    /\ strategy.positions["LONG"] = "open"

(***************************************************************************)
(* C23: Depth.set_snapshot terminates with an empty pending queue for      *)
(* every content of the pending queue, also when a drained update triggers *)
(* a sequence gap while further updates are queued behind it: whenever the *)
(* drain loop is running, set_snapshot later returns, and it returns with  *)
(* nothing left in the queue.                                              *)
(***************************************************************************)
C23_AsStated ==
    [](d_pc = "drain" => <>(d_pc = "idle" /\ depth.queue = <<>>))

(***************************************************************************)
(* C25: when Depth.update detects a sequence gap, the state is fully       *)
(* cleared before the gap callback fires: bids and asks are both empty,    *)
(* last_update_id is 0, is_snapshot_set and is_first_update_processed are  *)
(* both false.                                                             *)
(***************************************************************************)
C25_AsStated ==
    (d_last.outcome = "gap" /\ d_last.fired = 1) =>
        /\ depth.bids = <<>>
        /\ depth.asks = <<>>
        /\ depth.last_update_id = 0
        /\ ~depth.is_snapshot_set
        /\ ~depth.is_first_update_processed

(***************************************************************************)
(* C26: applying a depth diff pair (price, quantity) removes the price     *)
(* when quantity is 0 and otherwise inserts or overwrites it; after a new  *)
(* price is inserted each map holds at most limit entries, and the entries *)
(* kept are the limit best prices: the highest bids, the lowest asks.      *)
(***************************************************************************)
ItemsOf(container) == {container[i] : i \in 1..Len(container)}

\* the entries of the given set that have the n best prices
BestOf(entries, n, side) ==
    {e \in entries :
        Cardinality({f \in entries :
            IF side = "bids" THEN f[1] > e[1] ELSE f[1] < e[1]}) < n}

\* what the map holds after one pair, as the claim states it
DiffApplied(container, item, side) ==
    LET rest == {e \in ItemsOf(container) : e[1] # item[1]} IN
    IF item[2] = 0 THEN rest
    ELSE IF HasPrice(container, item[1]) THEN rest \cup {item}
    ELSE BestOf(rest \cup {item}, DepthLimit, side)

C26_AsStated ==
    [][(d_last'.outcome \in {"applied", "first"}) =>
         \A model \in DepthUpdateModels :
            (model.first_update_id = d_last'.first
             /\ model.last_update_id = d_last'.last) =>
                /\ ItemsOf(depth'.bids)
                     = DiffApplied(depth.bids, model.bids[1], "bids")
                /\ ItemsOf(depth'.asks)
                     = DiffApplied(depth.asks, model.asks[1], "asks")
                /\ Len(depth'.bids) <= DepthLimit
                /\ Len(depth'.asks) <= DepthLimit]_vars

\* the last CandlesLimit candles of a sequence
RingOf(seq) ==
    IF Len(seq) <= CandlesLimit THEN seq
    ELSE SubSeq(seq, Len(seq) - CandlesLimit + 1, Len(seq))

Observed == c_last.op = "observed" /\ c_last.pre # <<>>

LastOf(seq) == seq[Len(seq)]

(***************************************************************************)
(* C27: for a non-empty ring with last bar-open last.t and period P,       *)
(* update(trade) returns SAME_CANDLE and changes only the last candle      *)
(* (close = price, volume += quantity, high/low widened) when              *)
(* trade.t < last.t + P; returns NEW_CANDLE and appends exactly one candle *)
(* at last.t + P with open = high = low = close = trade.price and          *)
(* volume = trade.quantity when last.t + P <= trade.t < last.t + 2P; and   *)
(* returns MISSING_CANDLE when trade.t >= last.t + 2P.                     *)
(***************************************************************************)
C27_TickRule ==
    Observed =>
        LET last == LastOf(c_last.pre)
            trade == c_last.model
            P == TicksClock.timeframe_ms
        IN /\ trade.timestamp < last.timestamp + P =>
                /\ c_last.tick = "SAME_CANDLE"
                /\ Len(candles) = Len(c_last.pre)
                /\ \A i \in 1..(Len(candles) - 1) : candles[i] = c_last.pre[i]
                /\ LastOf(candles) =
                     Candle(last.timestamp, last.open,
                            IF trade.price > last.high THEN trade.price ELSE last.high,
                            IF trade.price < last.low THEN trade.price ELSE last.low,
                            trade.price, last.volume + trade.quantity)
           /\ (/\ last.timestamp + P <= trade.timestamp
               /\ trade.timestamp < last.timestamp + 2 * P) =>
                /\ c_last.tick = "NEW_CANDLE"
                /\ candles = RingOf(Append(c_last.pre,
                                 FlatCandle(last.timestamp + P, trade.price,
                                            trade.quantity)))
           /\ trade.timestamp >= last.timestamp + 2 * P =>
                c_last.tick = "MISSING_CANDLE"

\* a trade inside the last bar has raised its high
C27_Witness ==
    /\ Observed
    /\ c_last.tick = "SAME_CANDLE"
    /\ c_last.model.price > LastOf(c_last.pre).high
    /\ c_last.model.quantity = 1
    /\ LastOf(candles).high = c_last.model.price

(***************************************************************************)
(* C28: when update(trade) returns MISSING_CANDLE it appends exactly       *)
(* floor((trade.t - last.t) / P) - 1 flat candles (open = high = low =     *)
(* close = previous close, volume 0) at consecutive bar boundaries after   *)
(* last.t, opens no live candle for the trade, and leaves the ring such    *)
(* that the next trade within the trade's own window (one with the same    *)
(* timestamp) returns NEW_CANDLE.                                          *)
(***************************************************************************)
C28_MissingFill ==
    (Observed /\ c_last.tick = "MISSING_CANDLE") =>
        LET last == LastOf(c_last.pre)
            trade == c_last.model
            P == TicksClock.timeframe_ms
            cnt == ((trade.timestamp - last.timestamp) \div P) - 1
            flats == [n \in 1..cnt |-> FlatCandle(last.timestamp + P * n, last.close, 0)]
        IN /\ cnt >= 1
           /\ candles = RingOf(c_last.pre \o flats)
           /\ LastOf(candles).timestamp + P <= trade.timestamp
           /\ trade.timestamp < LastOf(candles).timestamp + 2 * P

\* a trade several periods late has synthesized two or more flat candles
C28_Witness ==
    /\ Observed
    /\ c_last.tick = "MISSING_CANDLE"
    /\ c_last.appended >= 2
    /\ LastOf(candles).volume = 0
    /\ LastOf(candles).close = LastOf(c_last.pre).close

(***************************************************************************)
(* C29: scenario S3.  In a 5m ring whose last candle opens at              *)
(* 1_700_000_300_000 with close 30100, update with the trade {price 30200, *)
(* qty 0, ts 1_700_000_930_000} returns MISSING_CANDLE and synthesizes     *)
(* flat candles at both 1_700_000_600_000 and 1_700_000_900_000 with       *)
(* O = H = L = C = 30100 and V = 0, without opening a live candle for the  *)
(* trade.  Timestamps are in seconds.                                      *)
(***************************************************************************)
S3Trade == [price |-> 30200, quantity |-> 0, timestamp |-> 1700000930]

S3Fed == Observed /\ c_last.pre = TicksRing /\ c_last.model = S3Trade

C29_AsStated ==
    S3Fed =>
        /\ c_last.tick = "MISSING_CANDLE"
        /\ \E i \in 1..Len(candles) : candles[i] = FlatCandle(1700000600, 30100, 0)
        /\ \E i \in 1..Len(candles) : candles[i] = FlatCandle(1700000900, 30100, 0)
        /\ \A i \in 1..Len(candles) : candles[i].open # S3Trade.price

\* C29 amended: the update returns MISSING_CANDLE and synthesizes exactly
\* one flat candle, at 1_700_000_600_000 with O = H = L = C = 30100 and
\* V = 0; the ring ends with it, and no candle, flat or live, is added at
\* 1_700_000_900_000
C29_Amended ==
    S3Fed =>
        /\ c_last.tick = "MISSING_CANDLE"
        /\ candles = RingOf(Append(TicksRing, FlatCandle(1700000600, 30100, 0)))
        /\ \A i \in 1..Len(candles) :
              /\ candles[i].timestamp < 1700000900
              /\ candles[i].open # S3Trade.price

\* the trade of S3 has been fed to the ring of S3
C29_Witness == S3Fed /\ LastOf(candles).timestamp = 1700000600

(***************************************************************************)
(* C30: when the ring is empty, update(trade) appends exactly one candle   *)
(* with open = high = low = close = trade.price and volume 0 whose         *)
(* timestamp is the half-hour-aligned bar-open that contains trade.t, and  *)
(* returns no tick type.                                                   *)
(***************************************************************************)
C30_AsStated ==
    (c_last.op = "observed" /\ c_last.pre = <<>>) =>
        LET trade == c_last.model
            half == TicksClock.hour_ms \div 2
        IN /\ c_last.tick = None
           /\ candles = <<FlatCandle((trade.timestamp \div half) * half,
                                     trade.price, 0)>>

\* the four statuses named terminal: the members of OrderStatus other than
\* NEW and PARTIALLY_FILLED
TerminalStatuses == {"FILLED", "CANCELED", "REJECTED", "EXPIRED"}

\* C21: handle_place_order stops polling get_order as soon as the venue
\* reports the order FILLED, CANCELED, REJECTED or EXPIRED: whenever a
\* handle_place_order is in _wait_for_processed and the venue holds the
\* order in one of these four statuses, the poll's exit test "if
\* order.is_processed" succeeds (and update_order then drops the client
\* order id from waiting).
C21_AsStated ==
    \A c \in Coids :
        (tasks[<<"rest", c>>].pc = "polling"
            /\ venue.orders[c].status \in TerminalStatuses)
        => IsProcessed(venue.orders[c].status)

\* update_order(order) is entered by task t
UpdateOrderBegins(t) ==
    /\ tasks'[t] # tasks[t]
    /\ tasks[t].pc \notin {"count", "create", "partial_update", "create_position",
                           "set_position_id", "update_position"}
    /\ tasks'[t].pc \in {"count", "ignored"}

\* C24: update_order(order) for an order whose symbol is not one of the
\* handler's symbols, or whose client_order_id is not in waiting, returns at
\* once: it writes nothing to the store and leaves the local storage, the
\* positions and the waiting map as they were.
C24_NoWrite ==
    [][/\ \A t \in TaskIds :
            (UpdateOrderBegins(t) /\ t[2] \notin waiting)
            => /\ tasks'[t].pc = "ignored"
               /\ UNCHANGED <<waiting, db, mem, storage>>
       /\ o_last'.foreign # o_last.foreign
            => /\ o_last'.foreign.pc = "ignored"
               /\ UNCHANGED <<waiting, db, mem, storage, tasks>>]_vars

\* an update for an order of another symbol and an update for an order of
\* the handler's that is no longer waiting have both been skipped, while
\* the store holds an order and a position
C24_Witness ==
    /\ o_last.foreign.pc = "ignored"
    /\ o_last.foreign.symbol \notin HandlerSymbols
    /\ \E c \in Coids :
        /\ tasks[<<"stream", c>>].pc = "ignored"
        /\ c \notin waiting
        /\ db.orders[c].status = "FILLED"
        /\ storage.position # 0

\* C22: a PlaceOrder command whose handle() completed during one
\* execute(symbol) is not handled again by the next execute(symbol), also
\* when a later command of the first pass raised: of two execute passes
\* that follow each other, the second completes no PlaceOrder that the
\* first completed.
C22_AsStated ==
    [][(cm_last.op = "execute" /\ cm_last'.op = "execute") =>
          \A i \in 1..Len(cm_last.pass.consumed) :
              cm_last.pass.consumed[i].kind = "PlaceOrder" =>
                  \A j \in 1..Len(cm_last'.pass.consumed) :
                      cm_last'.pass.consumed[j] # cm_last.pass.consumed[i]]_vars

\* C31: after Candles.set_snapshot(list) the ring holds, in time order,
\* every one of the last CandlesLimit snapshot candles, the final one
\* included; every other candle of the ring is a flat candle of volume 0 at
\* a bar boundary between two snapshot candles, priced at the close of the
\* candle before it; and the ring holds at most CandlesLimit candles.
C31_AsStated ==
    c_last.op = "set_snapshot" =>
        LET kept == LastCandles(c_last.snapshot, CandlesLimit)
            InSnapshot(c) == \E i \in 1..Len(kept) : kept[i] = c
        IN /\ \A i \in 1..Len(kept) : \E j \in 1..Len(candles) : candles[j] = kept[i]
           /\ \A j \in 1..(Len(candles) - 1) :
                  candles[j].timestamp < candles[j + 1].timestamp
           /\ \A j \in 2..Len(candles) :
                  ~InSnapshot(candles[j]) =>
                      candles[j] = FlatCandle(candles[j - 1].timestamp + TimeframeMs,
                                              candles[j - 1].close, 0)
           /\ Len(candles) <= CandlesLimit

\* the book update handled last reached the checks of a ready strategy whose
\* queue was empty, with a stop-loss in the rules and an open position of
\* the side
StopLossChecked(side) ==
    /\ strategy.pc # "none" /\ strategy.last.handled
    /\ strategy.ready /\ strategy.in_rules /\ strategy.rules.stop_loss
    /\ ~strategy.last.had_commands
    /\ strategy.positions[side] = "open"
    /\ \A other \in {"BOTH", "LONG", "SHORT"} \ {side} : strategy.positions[other] = "none"

\* C32: with a stop-loss configured and the queue of the symbol empty, a
\* book update enqueues the close of an OPEN LONG position if and only if
\* book.bid <= entry_price * (1 - rate), and of an OPEN SHORT position if
\* and only if book.ask >= entry_price * (1 + rate).
C32_AsStated ==
    \A side \in {"LONG", "SHORT"} :
        StopLossChecked(side) =>
            LET book == BookUpdateModel(strategy.last.bid, strategy.last.bid + 1)
                level == IF side = "LONG"
                         THEN book.bid * RuleRateDen <= EntryPrice * (RuleRateDen - RuleRateNum)
                         ELSE book.ask * RuleRateDen >= EntryPrice * (RuleRateDen + RuleRateNum)
            IN level <=> \E i \in 1..Len(strategy.last.appended) :
                             strategy.last.appended[i] = <<side, "stop_loss">>

\* C33: take-profit evaluates the ladder step whose index is the number of
\* exit orders recorded for the position and schedules an exit only when
\* the book has reached the level of that step; the scheduled quantity
\* never exceeds position.quantity; and when the last step of the ladder
\* triggers, an exit for the entire remaining quantity is scheduled.
C33_AsStated ==
    (ladder.pc # "none" /\ ladder.last.handled) =>
        LET last == ladder.last IN
        /\ last.call # "none" =>
               /\ last.step = ladder.exits + 1
               /\ TpLevelReached(ladder.side, last.price, ladder.steps[last.step].level)
        /\ ladder.queue # <<>> => ladder.queue[1] <= last.pre_quantity
        /\ (last.reached /\ last.step = Len(ladder.steps))
               => ladder.queue = <<last.pre_quantity>>

\* C34: when a take-profit step triggers, the exit scheduled is
\* total_quantity * step.stake, raised to min_notional / price when that
\* slice is worth less than min_notional (here rounded to whole lots); and
\* when the steps after the triggering one are together worth less than
\* min_notional at the current price, the exit scheduled is the whole
\* remaining quantity of the position.
C34_AsStated ==
    (ladder.pc # "none" /\ ladder.last.handled /\ ladder.last.reached) =>
        LET last == ladder.last
            step == ladder.steps[last.step]
            raw == ladder.total_quantity * step.stake * last.price
            min == ladder.min_notional * TpDen
            slice == IF raw < min THEN min ELSE raw
            rest == ladder.total_quantity * RestStakeAfter(ladder.steps, last.step)
                        * last.price
        IN ladder.queue =
               <<IF rest < min THEN last.pre_quantity
                 ELSE RoundHalfEven(slice, last.price * TpDen)>>

\* C35: check_signal enqueues a PlaceOrder for a (position_side,
\* order_side) group if and only if the number of triggered (indicator,
\* timeframe) pairs of the group is >= conditions_trigger_count and the
\* storage holds no order of that side on the position; at most one per
\* group, with quantity calc_trade_quantity(symbol, balance_stake,
\* order_side).
C35_AsStated ==
    (signal.pc # "none" /\ signal.last.handled) =>
        \A g \in 1..Len(SignalGroups) :
            LET group == SignalGroups[g]
                in == signal.last.in
                placed == {i \in 1..Len(signal.last.appended) :
                              /\ signal.last.appended[i].position_side = group[1]
                              /\ signal.last.appended[i].order_side = group[2]}
                quantity == CalcTradeQuantity(SignalCalc(group[2], in))
            IN /\ (TriggeredCnt(group, in.results) >= signal.conditions_trigger_count
                      /\ ~in.orders[group]) <=> placed # {}
               /\ Cardinality(placed) <= 1
               /\ \A i \in placed :
                      /\ quantity.kind = "value"
                      /\ signal.last.appended[i].quantity = quantity.quantity

\* C36: before Strategy.start has set ready, a book or candles callback
\* leaves the command queue as it was, runs no check, appends and executes
\* nothing and does not raise; and the queue is empty as long as the
\* strategy is not ready.
C36_NotReadyNoEffect ==
    [][~strategy.ready =>
          /\ strategy.queue = 0
          /\ strategy'.ready = strategy.ready => strategy'.queue = strategy.queue
          /\ (strategy'.last # strategy.last /\ strategy'.last.handled) =>
                 /\ strategy'.positions = strategy.positions
                 /\ strategy'.last.checks = <<>>
                 /\ strategy'.last.appended = <<>>
                 /\ strategy'.last.executes = 0
                 /\ ~strategy'.last.raised]_vars

\* a strategy with a stop-loss and an open LONG position from the startup
\* snapshot got a book update at the stop-loss level before it was ready
C36_Witness ==
    /\ strategy.pc # "none" /\ ~strategy.ready /\ strategy.in_rules
    /\ strategy.last.handled
    /\ strategy.rules.stop_loss
    /\ strategy.positions["LONG"] = "open"
    /\ StopLossTriggered("LONG", BookUpdateModel(strategy.last.bid, strategy.last.bid + 1))

\* C37: a book update is published if and only if its (bid, ask) differs
\* from the pair published last for its symbol.
C37_AsStated ==
    feed.pc # "none" /\ feed.last.handled =>
        (feed.last.sent <=> feed.last.pair # feed.last.before)

\* a book update that differs from the pair published last was not sent
C37_Suppressed ==
    /\ feed.pc # "none" /\ feed.last.handled
    /\ feed.last.pair # feed.last.before
    /\ ~feed.last.sent
    /\ feed.channel_open

\* a book update was sent with the pair the bus carried last for its symbol
C37_Repeated ==
    /\ feed.pc # "none" /\ feed.last.handled
    /\ feed.last.sent
    /\ feed.last.pair = feed.last.before

\* C38: when _execute is over for a feed event, execute(symbol) has run
\* exactly once for every strategy with outgoing commands; at most ChunkSize
\* executes are in flight, and no chunk starts while an execute of an
\* earlier chunk is in flight.
C38_AsStated ==
    batch.pc # "none" =>
        /\ Cardinality(InFlight(batch)) <= ChunkSize
        /\ ~batch.overlap
        /\ \A i \in 1..batch.n : batch.started[i] <= 1
        /\ (batch.pc \in {"returned", "raised"} /\ InFlight(batch) = {}) =>
               \A i \in 1..batch.n : batch.started[i] = 1

\* the part of C38 that the code keeps: the size of the chunks, their
\* separation, and at most one execute per strategy
C38_Chunks ==
    batch.pc # "none" =>
        /\ Cardinality(InFlight(batch)) <= ChunkSize
        /\ ~batch.overlap
        /\ \A i \in 1..batch.n : batch.started[i] <= 1

\* _execute is over and a strategy with outgoing commands was never executed
C38_Skipped ==
    /\ batch.pc = "raised"
    /\ InFlight(batch) = {}
    /\ \E i \in 1..batch.n : batch.started[i] = 0

\* C39: after a receive timeout, a client error, an exception of a message
\* callback or a failed connection attempt the loop of _fetch is still
\* running, so that the client connects again.
C39_AsStated ==
    (line.pc # "none" /\ line.error \in ReadErrors \cup {"connect"}) =>
        line.pc # "dead"

\* C40: when the task of _reader has ended, every stored update that
\* matches the query was delivered exactly once in the order of the
\* timestamps, and the done callbacks were fired exactly once, whatever the
\* number of matching updates.
C40_AsStated ==
    reader.pc \in {"finished", "raised"} =>
        /\ reader.delivered = [i \in 1..reader.total_cnt |-> i]
        /\ reader.done = 1

\* the part of C40 that the code keeps: what is delivered is a prefix of the
\* stored updates in their order, done is fired at most once and only after
\* all of them, and with no update or with ProgressSteps updates and more
\* the reader finishes
C40_Prefix ==
    reader.pc # "none" =>
        /\ reader.delivered = [i \in 1..reader.processed_cnt |-> i]
        /\ reader.processed_cnt <= reader.total_cnt
        /\ reader.done = (IF reader.pc = "finished" THEN 1 ELSE 0)
        /\ reader.pc = "finished" => reader.processed_cnt = reader.total_cnt
        /\ reader.pc = "raised" =>
               reader.total_cnt \in 1..(ProgressSteps - 1)

\* fewer than ProgressSteps updates are stored: the reader ended after the
\* first of them and done was never fired
C40_Stopped ==
    /\ reader.pc = "raised"
    /\ reader.total_cnt > 1
    /\ reader.processed_cnt = 1
    /\ reader.done = 0

====
